---- MODULE Spec2Model ----
(***************************************************************************)
(* A model of RedditAPITool                                                *)
(* (src/social_media_emotional_bias_detector/tools/reddit_api_tool.py):    *)
(* the URL builder, the fetch executor with its fallbacks, the response    *)
(* validator, the post extractor, the post filter and the failure          *)
(* classifier, with _run as the state machine that drives them.            *)
(*                                                                         *)
(* Python strings are TLA+ strings, handled character by character.        *)
(* Decoded JSON values are tagged records [ty, v].                         *)
(***************************************************************************)
EXTENDS Integers, Sequences, FiniteSets, TLC

VARIABLES
    mode,          \* the entry point this behaviour exercises: "run", "build", "filter", "classify", "payload"
    pc,            \* position inside the entry point
    source,        \* _run / _build_api_urls argument
    source_ty,     \* type(source).__name__; source is "" unless it is "str"
    source_type,   \* _run / _build_api_urls argument
    sort_type,     \* _run / _build_api_urls argument
    min_words,     \* _run / _filter_posts argument
    min_score,     \* _run / _filter_posts argument
    limit,         \* _run / _filter_posts argument
    api_urls,      \* _run: the list _build_api_urls returned
    ei,            \* _run: index in api_urls of the endpoint being fetched
    vi,            \* _fetch_with_fallbacks: index of the variant being requested
    result,        \* _run: what _fetch_with_fallbacks returned last (JNull: None)
    last_error,    \* _run: last_error
    ret,           \* _run: the dict handed to json.dumps and returned
    slept,         \* half seconds slept (time.sleep) since the last session.get call
    vreq,          \* session.get calls issued so far for the current variant
    last,          \* the outcome of the last session.get call and the line it was made at
    hist,          \* history: the class all network outcomes so far belong to
                   \* ("429", "timeout", "connection", "nochildren", "listings"),
                   \* "none" before the first, "mixed" otherwise
    posts,         \* _filter_posts argument (raw posts)
    filtered       \* _filter_posts result

vars == <<mode, pc, source, source_ty, source_type, sort_type, min_words, min_score,
          limit, api_urls, ei, vi, result, last_error, ret, slept, vreq,
          hist, last, posts, filtered>>

(***************************************************************************)
(* Python str operations                                                   *)
(***************************************************************************)

Char(s, i) == SubSeq(s, i, i)

DropFirst(s, n) == SubSeq(s, n + 1, Len(s))

UpperLetters == "ABCDEFGHIJKLMNOPQRSTUVWXYZ"

LowerLetters == "abcdefghijklmnopqrstuvwxyz"

Digits == "0123456789"

\* c in chars, for a one-character string c
CharIn(c, chars) == \E i \in 1..Len(chars) : Char(chars, i) = c

IsLetter(c) == CharIn(c, UpperLetters) \/ CharIn(c, LowerLetters)

\* str.split() and str.strip() whitespace
IsSpace(c) == c \in {" ", "\t", "\n", "\r"}

LowerChar(c) ==
    IF CharIn(c, UpperLetters)
    THEN LET i == CHOOSE k \in 1..26 : Char(UpperLetters, k) = c
         IN  Char(LowerLetters, i)
    ELSE c

\* s.lower(), character by character (by halves, to keep the recursion
\* flat; the halves a and b are bound as values)
RECURSIVE Lower(_)
Lower(s) ==
    IF Len(s) <= 1 THEN LowerChar(s)
    ELSE CHOOSE t \in {Lower(a) \o Lower(b) : a \in {SubSeq(s, 1, Len(s) \div 2)},
                                              b \in {DropFirst(s, Len(s) \div 2)}} : TRUE

StartsWith(s, prefix) ==
    Len(s) >= Len(prefix) /\ SubSeq(s, 1, Len(prefix)) = prefix

EndsWith(s, suffix) ==
    Len(s) >= Len(suffix) /\ SubSeq(s, Len(s) - Len(suffix) + 1, Len(s)) = suffix

\* sub in s
Contains(s, sub) ==
    \E i \in 1..(Len(s) - Len(sub) + 1) : SubSeq(s, i, i + Len(sub) - 1) = sub

\* s.find(sub, start) with 1-based positions; 0 when absent
Find(s, sub, start) ==
    LET hits == {i \in start..(Len(s) - Len(sub) + 1) :
                    SubSeq(s, i, i + Len(sub) - 1) = sub}
    IN  IF hits = {} THEN 0 ELSE CHOOSE i \in hits : \A j \in hits : i <= j

\* s.rfind(sub); 0 when absent
RFind(s, sub) ==
    LET hits == {i \in 1..(Len(s) - Len(sub) + 1) :
                    SubSeq(s, i, i + Len(sub) - 1) = sub}
    IN  IF hits = {} THEN 0 ELSE CHOOSE i \in hits : \A j \in hits : i >= j

RECURSIVE LStripChars(_, _)
LStripChars(s, chars) ==
    IF s # "" /\ CharIn(Char(s, 1), chars)
    THEN LStripChars(DropFirst(s, 1), chars)
    ELSE s

RECURSIVE RStripChars(_, _)
RStripChars(s, chars) ==
    IF s # "" /\ CharIn(Char(s, Len(s)), chars)
    THEN RStripChars(SubSeq(s, 1, Len(s) - 1), chars)
    ELSE s

\* s.strip(chars)
StripChars(s, chars) == RStripChars(LStripChars(s, chars), chars)

\* s.strip()
Strip(s) == StripChars(s, " \t\n\r")

\* s.replace(old, new), old non-empty: leftmost, non-overlapping occurrences
RECURSIVE Replace(_, _, _)
Replace(s, old, new) ==
    IF Len(s) < Len(old) THEN s
    ELSE IF StartsWith(s, old)
         THEN new \o Replace(DropFirst(s, Len(old)), old, new)
         ELSE Char(s, 1) \o Replace(DropFirst(s, 1), old, new)

\* the length of the run of non-whitespace characters s starts with
WordLen(s) ==
    LET hits == {i \in 1..Len(s) : IsSpace(Char(s, i))}
    IN  IF hits = {} THEN Len(s) ELSE (CHOOSE i \in hits : \A j \in hits : i <= j) - 1

\* s.split() of a string s without leading whitespace, word by word
RECURSIVE SplitFrom(_)
SplitFrom(s) ==
    IF s = "" THEN <<>>
    ELSE <<SubSeq(s, 1, WordLen(s))>>
            \o SplitFrom(LStripChars(DropFirst(s, WordLen(s)), " \t\n\r"))

\* s.split(): the maximal runs of non-whitespace characters, in order
Split(s) == SplitFrom(LStripChars(s, " \t\n\r"))

(***************************************************************************)
(* urllib.parse.urlparse, as far as scheme, netloc and path                *)
(***************************************************************************)

SchemeChars == UpperLetters \o LowerLetters \o Digits \o "+-."

\* position of the first of '/', '?', '#' at or after start; Len(s)+1 if none
NetlocEnd(s, start) ==
    LET hits == {i \in start..Len(s) : Char(s, i) \in {"/", "?", "#"}}
    IN  IF hits = {} THEN Len(s) + 1 ELSE CHOOSE i \in hits : \A j \in hits : i <= j

\* s up to, not including, the first occurrence of c
Before(s, c) ==
    LET i == Find(s, c, 1) IN IF i = 0 THEN s ELSE SubSeq(s, 1, i - 1)

\* the path with its ;params cut off (urlparse's _splitparams)
SplitParams(path) ==
    LET slash == RFind(path, "/")
        semi  == Find(path, ";", IF slash = 0 THEN 1 ELSE slash)
    IN  IF semi = 0 THEN path ELSE SubSeq(path, 1, semi - 1)

\* [ok, scheme, netloc, path]; ok = FALSE stands for the ValueError
\* ("Invalid IPv6 URL") that urlsplit raises on an unbalanced bracket
UrlParse(url) ==
    LET colon     == Find(url, ":", 1)
        hasScheme == /\ colon > 1
                     /\ IsLetter(Char(url, 1))
                     /\ \A i \in 1..(colon - 1) : CharIn(Char(url, i), SchemeChars)
        scheme    == IF hasScheme THEN Lower(SubSeq(url, 1, colon - 1)) ELSE ""
        rest      == IF hasScheme THEN DropFirst(url, colon) ELSE url
        hasNetloc == StartsWith(rest, "//")
        nend      == NetlocEnd(rest, 3)
        netloc    == IF hasNetloc THEN SubSeq(rest, 3, nend - 1) ELSE ""
        tail      == IF hasNetloc THEN DropFirst(rest, nend - 1) ELSE rest
        path      == SplitParams(Before(Before(tail, "#"), "?"))
    IN  [ok     |-> ~(Contains(netloc, "[") /\ ~Contains(netloc, "]"))
                    /\ ~(Contains(netloc, "]") /\ ~Contains(netloc, "[")),
         scheme |-> scheme,
         netloc |-> netloc,
         path   |-> path]

(***************************************************************************)
(* _build_api_urls                                                         *)
(***************************************************************************)

domains == <<"www.reddit.com", "old.reddit.com">>

SortTypes == {"hot", "new", "top", "rising"}

\* UrlsForDomain without the canonical-domain test of line 148
UrlsForDomainAnyHost(domain, src, stype, sort) ==
    LET base_url == "https://" \o domain
    IN  IF stype = "subreddit"
        THEN LET subreddit == StripChars(Replace(src, "r/", ""), "/")
             IN  IF sort \in SortTypes
                 THEN <<base_url \o "/r/" \o subreddit \o "/" \o sort \o ".json">>
                 ELSE <<base_url \o "/r/" \o subreddit \o "/hot.json">>
        ELSE IF stype = "user"
        THEN LET username == StripChars(Replace(src, "u/", ""), "/")
             IN  <<base_url \o "/user/" \o username \o "/submitted.json">>
        ELSE IF stype = "url"
        THEN LET parsed == UrlParse(src)
             IN  IF parsed.ok
                 THEN <<base_url \o RStripChars(parsed.path, "/") \o ".json">>
                 ELSE <<>>
        ELSE <<>>

\* UrlsForDomain without the default of lines 136-137
UrlsForDomainNoDefault(domain, src, stype, sort) ==
    LET base_url == "https://" \o domain
    IN  IF stype = "subreddit"
        THEN LET subreddit == StripChars(Replace(src, "r/", ""), "/")
             IN  <<base_url \o "/r/" \o subreddit \o "/" \o sort \o ".json">>
        ELSE IF stype = "user"
        THEN LET username == StripChars(Replace(src, "u/", ""), "/")
             IN  <<base_url \o "/user/" \o username \o "/submitted.json">>
        ELSE IF stype = "url"
        THEN LET parsed == UrlParse(src)
             IN  IF parsed.ok /\ Contains(parsed.netloc, "reddit.com")
                 THEN <<base_url \o RStripChars(parsed.path, "/") \o ".json">>
                 ELSE <<>>
        ELSE <<>>

\* the entries one mirror domain contributes (none or one)
UrlsForDomain(domain, src, stype, sort) ==
    LET base_url == "https://" \o domain
    IN  IF stype = "subreddit"
        THEN LET subreddit == StripChars(Replace(src, "r/", ""), "/")
             IN  IF sort \in SortTypes
                 THEN <<base_url \o "/r/" \o subreddit \o "/" \o sort \o ".json">>
                 ELSE <<base_url \o "/r/" \o subreddit \o "/hot.json">>
        ELSE IF stype = "user"
        THEN LET username == StripChars(Replace(src, "u/", ""), "/")
             IN  <<base_url \o "/user/" \o username \o "/submitted.json">>
        ELSE IF stype = "url"
        THEN LET parsed == UrlParse(src)
             IN  IF parsed.ok /\ Contains(parsed.netloc, "reddit.com")
                 THEN <<base_url \o RStripChars(parsed.path, "/") \o ".json">>
                 ELSE <<>>
        ELSE <<>>

RECURSIVE BuildFrom(_, _, _, _)
BuildFrom(i, src, stype, sort) ==
    IF i > Len(domains) THEN <<>>
    ELSE UrlsForDomain(domains[i], src, stype, sort) \o BuildFrom(i + 1, src, stype, sort)

BuildApiUrls(src, stype, sort) == BuildFrom(1, src, stype, sort)

(***************************************************************************)
(* Decoded JSON values: [ty, v] with ty the Python type of the value       *)
(***************************************************************************)

JNull == [ty |-> "null", v |-> 0]

JStr(s) == [ty |-> "str", v |-> s]

JInt(n) == [ty |-> "int", v |-> n]

JFloat(n) == [ty |-> "float", v |-> n]

JBool(b) == [ty |-> "bool", v |-> b]

\* l: a sequence of JSON values
JList(l) == [ty |-> "list", v |-> l]

\* d: a function from keys (strings) to JSON values
JDict(d) == [ty |-> "dict", v |-> d]

\* bool(x)
Truthy(x) ==
    CASE x.ty = "null"  -> FALSE
      [] x.ty = "bool"  -> x.v
      [] x.ty = "int"   -> x.v # 0
      [] x.ty = "float" -> x.v # 0
      [] x.ty = "str"   -> x.v # ""
      [] x.ty = "list"  -> Len(x.v) > 0
      [] x.ty = "dict"  -> DOMAIN x.v # {}

\* x == s for a string s
EqStr(x, s) == x.ty = "str" /\ x.v = s

\* d.get(key, default), d a dict
Get(d, key, default) == IF key \in DOMAIN d.v THEN d.v[key] ELSE default

\* d.get(key), d a dict
GetOrNone(d, key) == Get(d, key, JNull)

RECURSIVE NatStr(_)
NatStr(n) ==
    IF n < 10 THEN Char(Digits, n + 1)
    ELSE NatStr(n \div 10) \o Char(Digits, (n % 10) + 1)

\* str(x) of a scalar, as an f-string formats it
PyStr(x) ==
    CASE x.ty = "str"  -> x.v
      [] x.ty = "null" -> "None"
      [] x.ty = "bool" -> IF x.v THEN "True" ELSE "False"
      [] x.ty = "int"  -> IF x.v < 0 THEN "-" \o NatStr(-x.v) ELSE NatStr(x.v)

(***************************************************************************)
(* _extract_domain, _determine_post_type, _validate_post_content           *)
(***************************************************************************)

\* _extract_domain(url): url a JSON value; every exception inside is
\* swallowed and "" returned
ExtractDomain(url) ==
    IF ~Truthy(url) THEN ""
    ELSE IF url.ty # "str" THEN ""                 \* AttributeError, caught
    ELSE IF ~StartsWith(url.v, "http") THEN ""
    ELSE LET parsed == UrlParse(url.v)
         IN  IF parsed.ok THEN parsed.netloc ELSE ""  \* ValueError, caught

\* _determine_post_type taking every non-self post with a url for a link
DeterminePostTypeLinkByUrl(post) ==
    IF Truthy(Get(post, "is_self", JBool(FALSE)))
    THEN [exc |-> "none", v |-> "text"]
    ELSE IF Truthy(Get(post, "url", JStr("")))
    THEN [exc |-> "none", v |-> "link"]
    ELSE [exc |-> "none", v |-> "other"]

\* _determine_post_type with the link hint tested before the video flag
DeterminePostTypeLinkFirst(post) ==
    IF Truthy(Get(post, "is_self", JBool(FALSE)))
    THEN [exc |-> "none", v |-> "text"]
    ELSE IF EqStr(GetOrNone(post, "post_hint"), "image")
    THEN [exc |-> "none", v |-> "image"]
    ELSE IF EqStr(GetOrNone(post, "post_hint"), "rich:video")
    THEN [exc |-> "none", v |-> "video"]
    ELSE IF EqStr(GetOrNone(post, "post_hint"), "link")
    THEN [exc |-> "none", v |-> "link"]
    ELSE IF Truthy(Get(post, "is_video", JBool(FALSE)))
    THEN [exc |-> "none", v |-> "video"]
    ELSE IF Get(post, "url", JStr("")).ty # "str"
    THEN [exc |-> "AttributeError", v |-> ""]
    ELSE IF StartsWith(Get(post, "url", JStr("")).v, "https://www.reddit.com")
    THEN [exc |-> "none", v |-> "crosspost"]
    ELSE [exc |-> "none", v |-> "other"]

\* _determine_post_type(post): [exc, v]; exc is "AttributeError" when the
\* url field is reached and is not a string
DeterminePostType(post) ==
    IF Truthy(Get(post, "is_self", JBool(FALSE)))
    THEN [exc |-> "none", v |-> "text"]
    ELSE IF EqStr(GetOrNone(post, "post_hint"), "image")
    THEN [exc |-> "none", v |-> "image"]
    ELSE IF EqStr(GetOrNone(post, "post_hint"), "rich:video")
    THEN [exc |-> "none", v |-> "video"]
    ELSE IF Truthy(Get(post, "is_video", JBool(FALSE)))
    THEN [exc |-> "none", v |-> "video"]
    ELSE IF EqStr(GetOrNone(post, "post_hint"), "link")
    THEN [exc |-> "none", v |-> "link"]
    ELSE IF Get(post, "url", JStr("")).ty # "str"
    THEN [exc |-> "AttributeError", v |-> ""]
    ELSE IF StartsWith(Get(post, "url", JStr("")).v, "https://www.reddit.com")
    THEN [exc |-> "none", v |-> "crosspost"]
    ELSE [exc |-> "none", v |-> "other"]

spam_indicators ==
    <<"[removed]", "[deleted]", "this post was removed", "comment deleted">>

\* lines 360-367, full_content being post_data['full_content'].strip()
ValidContent(full_content) ==
    IF Len(full_content) < 10 THEN FALSE
    ELSE IF \E i \in 1..Len(spam_indicators) :
               Contains(Lower(full_content), spam_indicators[i])
         THEN FALSE
         ELSE TRUE

\* _validate_post_content(post_data)
ValidatePostContent(post_data) ==
    IF Strip(post_data.title) = "" THEN FALSE
    ELSE ValidContent(Strip(post_data.full_content))

(***************************************************************************)
(* _filter_posts: the word count                                           *)
(***************************************************************************)

\* the number of letters of s from position i on
RECURSIVE LetterRun(_, _)
LetterRun(s, i) ==
    IF i <= Len(s) /\ IsLetter(Char(s, i)) THEN 1 + LetterRun(s, i + 1) ELSE 0

RECURSIVE SubEntities(_)

\* the substitution from the "&" at position i on, which n letters follow:
\* "&", the letters and a ";" after them are replaced by a space
SubEntityAt(s, i, n) ==
    IF n >= 1 /\ i + n + 1 <= Len(s) /\ Char(s, i + n + 1) = ";"
    THEN SubSeq(s, 1, i - 1) \o " " \o SubEntities(DropFirst(s, i + n + 1))
    ELSE SubSeq(s, 1, i) \o SubEntities(DropFirst(s, i))

\* re.sub(r'&[a-zA-Z]+;', ' ', s), from one "&" to the next
SubEntities(s) ==
    IF Find(s, "&", 1) = 0 THEN s
    ELSE SubEntityAt(s, Find(s, "&", 1), LetterRun(s, Find(s, "&", 1) + 1))

\* The pattern of line 282 is a raw string, so its \\ is an escaped
\* backslash: the class holds * _ backquote # \ [ and ends at the first
\* unescaped ], then come an empty group () and a literal ]. The pattern
\* matches one character of the class followed by ']'. (A backquote cannot
\* be written in a string here; no text of the model holds one.)
MarkdownClass == "*_#\\["

\* the positions of s where the pattern of line 282 matches
MarkdownHits(s) ==
    {i \in 1..(Len(s) - 1) : CharIn(Char(s, i), MarkdownClass) /\ Char(s, i + 1) = "]"}

\* re.sub(<the pattern of line 282>, ' ', s), from one match to the next
RECURSIVE SubMarkdown(_)
SubMarkdown(s) ==
    IF MarkdownHits(s) = {} THEN s
    ELSE LET i == CHOOSE k \in MarkdownHits(s) : \A j \in MarkdownHits(s) : k <= j
         IN  SubSeq(s, 1, i - 1) \o " " \o SubMarkdown(DropFirst(s, i + 1))

LongWords(words) == SelectSeq(words, LAMBDA w : Len(w) > 2)

\* lines 281-283
WordCount(full_text) == Len(LongWords(Split(SubMarkdown(SubEntities(full_text)))))

(***************************************************************************)
(* _filter_posts                                                           *)
(***************************************************************************)

deleted_markers == {"[deleted]", "[removed]"}

\* x in ["[deleted]", "[removed]"]
IsDeletedMarker(x) == x.ty = "str" /\ x.v \in deleted_markers

\* lines 260-262
IsRemoved(post) ==
    \/ Truthy(GetOrNone(post, "removed_by_category"))
    \/ IsDeletedMarker(GetOrNone(post, "author"))
    \/ IsDeletedMarker(GetOrNone(post, "selftext"))

\* lines 270-275: the selftext of a post whose stripped selftext is selftext
LinkSelftext(post, selftext) ==
    IF /\ selftext = ""
       /\ ~Truthy(Get(post, "is_self", JBool(FALSE)))
       /\ Truthy(Get(post, "url", JStr("")))
    THEN "Link to: " \o ExtractDomain(Get(post, "url", JStr("")))
    ELSE selftext

\* line 278
TextOf(title, selftext) ==
    [title     |-> title,
     selftext  |-> selftext,
     full_text |-> Strip(title \o " " \o selftext)]

\* lines 266-278: [title, selftext, full_text], for a post whose title and
\* selftext are strings
DisplayText(post) ==
    TextOf(Strip(Get(post, "title", JStr("")).v),
           LinkSelftext(post, Strip(Get(post, "selftext", JStr("")).v)))

\* whether max(0, x) is defined (otherwise TypeError)
IsNumber(x) == x.ty \in {"int", "float", "bool"}

\* max(0, x) of line 286
ClampScore(x) ==
    LET n == IF x.ty = "bool" THEN (IF x.v THEN 1 ELSE 0) ELSE x.v
    IN  IF n > 0 THEN n ELSE 0

\* lines 291-311
PostData(post, text, word_count, score, post_type) ==
    [title        |-> text.title,
     selftext     |-> text.selftext,
     full_content |-> text.full_text,
     author       |-> Get(post, "author", JStr("")),
     subreddit    |-> Get(post, "subreddit", JStr("")),
     score        |-> score,
     upvote_ratio |-> Get(post, "upvote_ratio", JFloat(0)),
     num_comments |-> Get(post, "num_comments", JInt(0)),
     created_utc  |-> Get(post, "created_utc", JInt(0)),
     permalink    |-> "https://www.reddit.com" \o PyStr(Get(post, "permalink", JStr(""))),
     word_count   |-> word_count,
     post_type    |-> post_type,
     url          |-> Get(post, "url", JStr("")),
     domain       |-> ExtractDomain(Get(post, "url", JStr(""))),
     is_self      |-> Get(post, "is_self", JBool(FALSE)),
     flair        |-> Get(post, "link_flair_text", JStr("")),
     nsfw         |-> Get(post, "over_18", JBool(FALSE)),
     spoiler      |-> Get(post, "spoiler", JBool(FALSE)),
     stickied     |-> Get(post, "stickied", JBool(FALSE))]

NoData == [title |-> ""]

\* lines 289-314 for a post that line 287 lets through: exc tells whether
\* lines 291-311 raise, data is post_data, valid the verdict of line 314
Built(post, text, word_count, score, ptype) ==
    [step       |-> "built",
     word_count |-> word_count,
     score      |-> score,
     exc        |-> ptype.exc,
     data       |-> IF ptype.exc = "none"
                    THEN PostData(post, text, word_count, score, ptype.v)
                    ELSE NoData,
     valid      |-> /\ ptype.exc = "none"
                    /\ ValidatePostContent(PostData(post, text, word_count, score, ptype.v))]

\* lines 281-314 for the display text of the post
ExamineText(post, text) ==
    Built(post, text, WordCount(text.full_text),
          ClampScore(Get(post, "score", JInt(0))), DeterminePostType(post))

\* One pass of the loop body (lines 258-315) up to the thresholds' inputs:
\*   step "skip"  : the post is dropped before line 287 (removed, or an
\*                  AttributeError / TypeError caught at line 321);
\*   step "built" : word_count and score are known; exc tells whether lines
\*                  291-311 raise (caught at line 321), data is post_data and
\*                  valid is _validate_post_content(post_data).
Examine(post) ==
    IF post.ty # "dict"
    THEN [step |-> "skip", why |-> "AttributeError"]
    ELSE IF IsRemoved(post)
    THEN [step |-> "skip", why |-> "removed"]
    ELSE IF \/ Get(post, "title", JStr("")).ty # "str"
            \/ Get(post, "selftext", JStr("")).ty # "str"
    THEN [step |-> "skip", why |-> "AttributeError"]
    ELSE IF ~IsNumber(Get(post, "score", JInt(0)))
    THEN [step |-> "skip", why |-> "TypeError"]
    ELSE ExamineText(post, DisplayText(post))

\* line 287 with "and" for "or"
BelowBoth(word_count, score, mw, ms) == word_count < mw /\ score < ms

\* line 287 with "<=" for the first "<"
BelowOrAtMinWords(word_count, score, mw, ms) == word_count <= mw \/ score < ms

\* line 287
BelowThresholds(word_count, score, mw, ms) == word_count < mw \/ score < ms

\* whether the loop body appends the post (line 315)
Admits(e, mw, ms) ==
    /\ e.step = "built"
    /\ ~BelowThresholds(e.word_count, e.score, mw, ms)
    /\ e.exc = "none"
    /\ e.valid

\* line 318 with ">" for ">="
LimitExceeded(n, lim) == n > lim

\* line 318
LimitReached(n, lim) == n >= lim

(***************************************************************************)
(* Raw posts the inputs are drawn from                                     *)
(***************************************************************************)

\* a self post that passes every check (7 words, score 15)
PostText ==
    JDict([title |-> JStr("Great long title"), selftext |-> JStr("some body text here"),
           is_self |-> JBool(TRUE), score |-> JInt(15), author |-> JStr("alice"),
           subreddit |-> JStr("news"), permalink |-> JStr("/r/news/1"),
           url |-> JStr("https://www.reddit.com/r/news/1")])

\* a link post without selftext and without post_hint (4 words, score 12)
PostLinkNoHint ==
    JDict([title |-> JStr("News"), is_self |-> JBool(FALSE), score |-> JInt(12),
           url |-> JStr("https://example.com/a")])

\* the same link post carrying post_hint "link"
PostLinkHint ==
    JDict([title |-> JStr("News"), is_self |-> JBool(FALSE), score |-> JInt(12),
           url |-> JStr("https://example.com/a"), post_hint |-> JStr("link")])

\* markdown runs in the title: 6 tokens longer than two characters, 3 of
\* them made of markdown punctuation only
PostMarkdown ==
    JDict([title |-> JStr("*** ### ___"), selftext |-> JStr("plain words here"),
           is_self |-> JBool(TRUE), score |-> JInt(20)])

\* HTML entities: "Tom &amp; Jerry" and "a &lt; b" (2 words)
PostEntity ==
    JDict([title |-> JStr("Tom &amp; Jerry"), selftext |-> JStr("a &lt; b"),
           is_self |-> JBool(TRUE), score |-> JInt(11)])

\* a spam marker in mixed case inside the content
PostSpam ==
    JDict([title |-> JStr("Mod note"), selftext |-> JStr("This Post Was Removed by mods"),
           is_self |-> JBool(TRUE), score |-> JInt(30)])

\* a negative score
PostNegative ==
    JDict([title |-> JStr("Downvoted post title"), selftext |-> JStr("text body words"),
           is_self |-> JBool(TRUE), score |-> JInt(-5)])

\* content shorter than 10 characters
PostShort ==
    JDict([title |-> JStr("Hi"), selftext |-> JStr(""), is_self |-> JBool(TRUE),
           score |-> JInt(40)])

\* a blank title
PostNoTitle ==
    JDict([title |-> JStr("  "), selftext |-> JStr("long enough content here"),
           is_self |-> JBool(TRUE), score |-> JInt(40)])

\* selftext is a deletion marker
PostRemoved ==
    JDict([title |-> JStr("Gone post title"), selftext |-> JStr("[removed]"),
           is_self |-> JBool(TRUE), score |-> JInt(50)])

\* title is null: .strip() raises AttributeError
PostNullTitle ==
    JDict([title |-> JNull, selftext |-> JStr("body of the post"), score |-> JInt(50)])

\* score is a string: max(0, "high") raises TypeError
PostBadScore ==
    JDict([title |-> JStr("Some title words"), selftext |-> JStr("body of the post"),
           is_self |-> JBool(TRUE), score |-> JStr("high")])

\* url is null on a non-self post with text: .startswith raises AttributeError
PostNullUrl ==
    JDict([title |-> JStr("Some title words"), selftext |-> JStr("body of the post"),
           is_self |-> JBool(FALSE), score |-> JInt(50), url |-> JNull])

\* a data block that is no mapping
PostNotADict == JStr("t3_abc")

RawPosts ==
    {PostText, PostLinkNoHint, PostLinkHint, PostMarkdown, PostEntity, PostSpam,
     PostNegative, PostShort, PostNoTitle, PostRemoved, PostNullTitle,
     PostBadScore, PostNullUrl, PostNotADict}

\* Examine, computed once per raw post
Examined == [p \in RawPosts |-> Examine(p)]

ExamineOf(post) == IF post \in RawPosts THEN Examined[post] ELSE Examine(post)

RECURSIVE FilterFrom(_, _, _, _, _, _)

\* lines 287-319 for element i, examined as e
FilterStep(ps, i, acc, mw, ms, lim, e) ==
    IF Admits(e, mw, ms)
    THEN IF LimitReached(Len(acc) + 1, lim)
         THEN Append(acc, e.data)
         ELSE FilterFrom(ps, i + 1, Append(acc, e.data), mw, ms, lim)
    ELSE FilterFrom(ps, i + 1, acc, mw, ms, lim)

\* the loop of lines 257-322 from element i on, acc = filtered_posts so far
FilterFrom(ps, i, acc, mw, ms, lim) ==
    IF i > Len(ps) THEN acc
    ELSE FilterStep(ps, i, acc, mw, ms, lim, ExamineOf(ps[i]))

\* _filter_posts(posts, min_words, min_score, limit)
FilterPosts(ps, mw, ms, lim) == FilterFrom(ps, 1, <<>>, mw, ms, lim)

(***************************************************************************)
(* Python operations on decoded JSON values that may raise                 *)
(***************************************************************************)

\* type(x).__name__
TypeName(x) ==
    CASE x.ty = "null"  -> "NoneType"
      [] x.ty = "bool"  -> "bool"
      [] x.ty = "int"   -> "int"
      [] x.ty = "float" -> "float"
      [] x.ty = "str"   -> "str"
      [] x.ty = "list"  -> "list"
      [] x.ty = "dict"  -> "dict"

\* an exception: its class and str() of it
Err(cls, msg) == [cls |-> cls, msg |-> msg]

\* no exception (last_error = None); str(None) is "None"
NoError == [cls |-> "None", msg |-> "None"]

\* key in x, for a string key: [exc, v]
PyIn(key, x) ==
    CASE x.ty = "dict" -> [exc |-> NoError, v |-> key \in DOMAIN x.v]
      [] x.ty = "list" -> [exc |-> NoError,
                           v   |-> \E i \in 1..Len(x.v) : EqStr(x.v[i], key)]
      [] x.ty = "str"  -> [exc |-> NoError, v |-> Contains(x.v, key)]
      [] OTHER         -> [exc |-> Err("TypeError", "argument of type '" \o TypeName(x)
                                                      \o "' is not iterable"),
                           v   |-> FALSE]

\* x[key], for a string key: [exc, v]
PyIndex(x, key) ==
    CASE x.ty = "dict" /\ key \in DOMAIN x.v -> [exc |-> NoError, v |-> x.v[key]]
      [] x.ty = "dict" /\ key \notin DOMAIN x.v ->
             [exc |-> Err("KeyError", "'" \o key \o "'"), v |-> JNull]
      [] x.ty = "str" -> [exc |-> Err("TypeError", "string indices must be integers"),
                          v   |-> JNull]
      [] x.ty = "list" ->
             [exc |-> Err("TypeError", "list indices must be integers or slices, not str"),
              v   |-> JNull]
      [] OTHER -> [exc |-> Err("TypeError", "'" \o TypeName(x)
                                            \o "' object is not subscriptable"),
                   v   |-> JNull]

\* len(x): [exc, v]
PyLen(x) ==
    CASE x.ty = "dict" -> [exc |-> NoError, v |-> Cardinality(DOMAIN x.v)]
      [] x.ty = "list" -> [exc |-> NoError, v |-> Len(x.v)]
      [] x.ty = "str"  -> [exc |-> NoError, v |-> Len(x.v)]
      [] OTHER -> [exc |-> Err("TypeError", "object of type '" \o TypeName(x)
                                            \o "' has no len()"),
                   v   |-> 0]

RECURSIVE SetToSeq(_)
SetToSeq(S) ==
    IF S = {} THEN <<>>
    ELSE LET x == CHOOSE y \in S : TRUE IN <<x>> \o SetToSeq(S \ {x})

RECURSIVE CharsOf(_)
CharsOf(s) == IF s = "" THEN <<>> ELSE <<JStr(Char(s, 1))>> \o CharsOf(DropFirst(s, 1))

\* the elements "for child in x" visits: [exc, v]. A dict yields its keys
\* and a string its characters.
PyIter(x) ==
    CASE x.ty = "list" -> [exc |-> NoError, v |-> x.v]
      [] x.ty = "dict" -> [exc |-> NoError,
                           v   |-> LET ks == SetToSeq(DOMAIN x.v)
                                   IN  [i \in 1..Len(ks) |-> JStr(ks[i])]]
      [] x.ty = "str"  -> [exc |-> NoError, v |-> CharsOf(x.v)]
      [] OTHER -> [exc |-> Err("TypeError", "'" \o TypeName(x)
                                            \o "' object is not iterable"),
                   v   |-> <<>>]

(***************************************************************************)
(* _validate_response                                                      *)
(***************************************************************************)

\* _validate_response without the test for children
ValidateResponseDataOnly(data) ==
    data.ty = "dict" /\ "data" \in DOMAIN data.v

\* The elif of line 219 sits inside "if isinstance(data, dict)", so it is
\* reached only for a dict and its isinstance(data, list) is then false.
ValidateResponse(data) ==
    IF data.ty # "dict" THEN FALSE
    ELSE IF "data" \notin DOMAIN data.v THEN FALSE
    ELSE LET d  == data.v["data"]
             in == PyIn("children", d)
         IN  IF in.exc # NoError THEN FALSE              \* except Exception
             ELSE IF ~in.v THEN FALSE
             ELSE LET c == PyIndex(d, "children")
                  IN  IF c.exc # NoError THEN FALSE
                      ELSE LET n == PyLen(c.v)
                           IN  IF n.exc # NoError THEN FALSE ELSE n.v > 0

(***************************************************************************)
(* _extract_posts                                                          *)
(***************************************************************************)

\* the exceptions line 247 catches
ExtractCaught == {"KeyError", "TypeError", "IndexError"}

\* lines 234-236 / 244-246 from child i on, acc = posts so far: [exc, posts]
RECURSIVE ExtractChildren(_, _, _)
ExtractChildren(children, i, acc) ==
    IF i > Len(children) THEN [exc |-> NoError, posts |-> acc]
    ELSE LET child == children[i]
         IN  IF child.ty # "dict"
             THEN [exc   |-> Err("AttributeError", "'" \o TypeName(child)
                                                   \o "' object has no attribute 'get'"),
                   posts |-> acc]
             ELSE IF EqStr(GetOrNone(child, "kind"), "t3")
             THEN LET d == PyIndex(child, "data")
                  IN  IF d.exc # NoError THEN [exc |-> d.exc, posts |-> acc]
                      ELSE ExtractChildren(children, i + 1, Append(acc, d.v))
             ELSE ExtractChildren(children, i + 1, acc)

\* "data" in x and "children" in x["data"]: [exc, v]
HasDataChildren(x) ==
    LET a == PyIn("data", x)
    IN  IF a.exc # NoError \/ ~a.v THEN a
        ELSE LET d == PyIndex(x, "data")
             IN  IF d.exc # NoError THEN [exc |-> d.exc, v |-> FALSE]
                 ELSE PyIn("children", d.v)

\* the t3 children of listing x appended to acc: [exc, posts]
ExtractListing(x, acc) ==
    LET d == PyIndex(x, "data")
    IN  IF d.exc # NoError THEN [exc |-> d.exc, posts |-> acc]
        ELSE LET c == PyIndex(d.v, "children")
             IN  IF c.exc # NoError THEN [exc |-> c.exc, posts |-> acc]
                 ELSE LET it == PyIter(c.v)
                      IN  IF it.exc # NoError THEN [exc |-> it.exc, posts |-> acc]
                          ELSE ExtractChildren(it.v, 1, acc)

\* lines 242-246 from item i on
RECURSIVE ExtractItems(_, _, _)
ExtractItems(items, i, acc) ==
    IF i > Len(items) THEN [exc |-> NoError, posts |-> acc]
    ELSE LET h == HasDataChildren(items[i])
         IN  IF h.exc # NoError THEN [exc |-> h.exc, posts |-> acc]
             ELSE IF ~h.v THEN ExtractItems(items, i + 1, acc)
             ELSE LET r == ExtractListing(items[i], acc)
                  IN  IF r.exc # NoError THEN r
                      ELSE ExtractItems(items, i + 1, r.posts)

\* the try block of lines 229-246: [exc, posts]
ExtractTry(data) ==
    IF data.ty = "dict"
    THEN LET h == HasDataChildren(data)
         IN  IF h.exc # NoError THEN [exc |-> h.exc, posts |-> <<>>]
             ELSE IF h.v THEN ExtractListing(data, <<>>)
             ELSE IF "data" \in DOMAIN data.v /\ data.v["data"].ty = "dict"
             THEN [exc |-> NoError, posts |-> <<data.v["data"]>>]
             ELSE [exc |-> NoError, posts |-> <<>>]
    ELSE IF data.ty = "list" /\ Len(data.v) > 0
    THEN ExtractItems(data.v, 1, <<>>)
    ELSE [exc |-> NoError, posts |-> <<>>]

\* _extract_posts(data): [exc, posts]; exc is an exception that leaves the
\* function, posts the list returned otherwise
ExtractPosts(data) ==
    LET r == ExtractTry(data)
    IN  IF r.exc = NoError THEN r
        ELSE IF r.exc.cls \in ExtractCaught THEN [exc |-> NoError, posts |-> r.posts]
        ELSE [exc |-> r.exc, posts |-> <<>>]

(***************************************************************************)
(* Exceptions                                                              *)
(***************************************************************************)

\* the direct base classes of the exception classes the model raises
Bases(cls) ==
    CASE cls = "requests.ConnectTimeout" -> {"requests.ConnectionError", "requests.Timeout"}
      [] cls = "requests.ReadTimeout"    -> {"requests.Timeout"}
      [] cls = "requests.SSLError"       -> {"requests.ConnectionError"}
      [] cls = "requests.Timeout"        -> {"requests.RequestException"}
      [] cls = "requests.ConnectionError" -> {"requests.RequestException"}
      [] cls = "requests.HTTPError"      -> {"requests.RequestException"}
      [] cls = "requests.RetryError"     -> {"requests.RequestException"}
      [] cls = "requests.JSONDecodeError" -> {"json.JSONDecodeError", "requests.RequestException"}
      [] cls = "requests.RequestException" -> {"OSError"}
      [] cls = "ssl.SSLError"            -> {"OSError"}
      [] cls = "OSError"                 -> {"Exception"}
      [] cls = "simplejson.JSONDecodeError" -> {"ValueError"}
      [] cls = "json.JSONDecodeError"    -> {"ValueError"}
      [] cls = "ValueError"              -> {"Exception"}
      [] cls = "KeyError"                -> {"LookupError"}
      [] cls = "IndexError"              -> {"LookupError"}
      [] cls = "LookupError"             -> {"Exception"}
      [] cls = "TypeError"               -> {"Exception"}
      [] cls = "AttributeError"          -> {"Exception"}
      [] cls = "RuntimeError"            -> {"Exception"}
      [] OTHER                           -> {}

RECURSIVE IsSubclass(_, _)
IsSubclass(cls, base) ==
    cls = base \/ \E b \in Bases(cls) : IsSubclass(b, base)

\* isinstance(e, base); None is an instance of no exception class
IsInstance(e, base) == e # NoError /\ IsSubclass(e.cls, base)

(***************************************************************************)
(* _format_error, _handle_fetch_failure                                    *)
(***************************************************************************)

fallback_suggestion ==
    "As a backup, you can manually copy/paste Reddit content and provide it directly for analysis."

\* _format_error(error_msg, error_code, user_guidance) at time now: the dict
\* handed to json.dumps
FormatError(error_msg, error_code, user_guidance, now) ==
    [success             |-> FALSE,
     error               |-> error_msg,
     error_code          |-> error_code,
     user_guidance       |-> user_guidance,
     fallback_suggestion |-> fallback_suggestion,
     timestamp           |-> now]

\* _handle_fetch_failure without the isinstance test of line 373
HandleFetchFailureNoTimeout(src, stype, e, now) ==
    IF IsInstance(e, "requests.ConnectionError")
    THEN FormatError("Unable to connect to Reddit servers", "CONNECTION_ERROR",
                     "Network connection issue.", now)
    ELSE IF Contains(e.msg, "403") \/ Contains(e.msg, "Forbidden")
    THEN FormatError("Access to '" \o src \o "' is forbidden", "ACCESS_FORBIDDEN",
                     "The " \o stype \o " may be private.", now)
    ELSE IF Contains(e.msg, "404") \/ Contains(e.msg, "Not Found")
    THEN FormatError("'" \o src \o "' does not exist", "NOT_FOUND",
                     "The " \o stype \o " was not found.", now)
    ELSE IF Contains(e.msg, "429") \/ Contains(Lower(e.msg), "rate limit")
    THEN FormatError("Rate limited by Reddit after multiple attempts", "RATE_LIMITED",
                     "Reddit is blocking requests due to high traffic.", now)
    ELSE FormatError("No posts found meeting criteria after trying all fallback methods",
                     "NO_VALID_CONTENT", "Try lowering the thresholds.", now)

\* _handle_fetch_failure(source, source_type, last_error) at time now
HandleFetchFailure(src, stype, e, now) ==
    IF IsInstance(e, "requests.Timeout")
    THEN FormatError("All requests timed out after multiple attempts",
                     "TIMEOUT_ERROR",
                     "Reddit's servers are responding slowly. Try again in a few minutes, or consider using manual copy/paste as a backup method.",
                     now)
    ELSE IF IsInstance(e, "requests.ConnectionError")
    THEN FormatError("Unable to connect to Reddit servers",
                     "CONNECTION_ERROR",
                     "Network connection issue. Check your internet connection or try again later.",
                     now)
    ELSE IF Contains(e.msg, "403") \/ Contains(e.msg, "Forbidden")
    THEN FormatError("Access to '" \o src \o "' is forbidden",
                     "ACCESS_FORBIDDEN",
                     "The " \o stype \o " '" \o src \o "' may be private, banned, or restricted. Try a different "
                        \o stype \o " or use manual copy/paste method.",
                     now)
    ELSE IF Contains(e.msg, "404") \/ Contains(e.msg, "Not Found")
    THEN FormatError("'" \o src \o "' does not exist",
                     "NOT_FOUND",
                     "The " \o stype \o " '" \o src \o "' was not found. Check the spelling and try again.",
                     now)
    ELSE IF Contains(e.msg, "429") \/ Contains(Lower(e.msg), "rate limit")
    THEN FormatError("Rate limited by Reddit after multiple attempts",
                     "RATE_LIMITED",
                     "Reddit is blocking requests due to high traffic. Wait 10-15 minutes before trying again, or use manual copy/paste as an alternative.",
                     now)
    ELSE FormatError("No posts found meeting criteria after trying all fallback methods",
                     "NO_VALID_CONTENT",
                     "No posts in '" \o src \o "' meet your criteria (min_words: 50, min_score: 10). Try lowering the thresholds or choosing a different "
                        \o stype \o ".",
                     now)

\* lines 80-84
InvalidSourceError(stype, now) ==
    FormatError("Invalid source type '" \o stype \o "' or unable to parse URL",
                "INVALID_SOURCE",
                "Please check your source format and try again. For subreddits, use the name without 'r/'. For users, use the username without 'u/'. For URLs, ensure they are valid Reddit post URLs.",
                now)

\* lines 116-120
UnexpectedError(e, now) ==
    FormatError("Unexpected error: " \o e.msg,
                "UNEXPECTED_ERROR",
                "An unexpected error occurred. Please try again or contact support if the issue persists.",
                now)

\* lines 97-104
SuccessResult(filtered_posts, src, stype, domain_url) ==
    [success     |-> TRUE,
     posts       |-> filtered_posts,
     total_found |-> Len(filtered_posts),
     source      |-> src,
     source_type |-> stype,
     url_used    |-> domain_url]

(***************************************************************************)
(* Decoded payloads and response bodies the network outcomes are drawn     *)
(* from                                                                    *)
(***************************************************************************)

Listing(children) == JDict([data |-> JDict([children |-> JList(children)])])

Child(kind, data) == JDict([kind |-> JStr(kind), data |-> data])

\* one post that passes the filter under the lenient thresholds
PayloadGood == Listing(<<Child("t3", PostText)>>)

\* a comment, then posts of which some pass
PayloadMixed ==
    Listing(<<Child("t1", PostText), Child("t3", PostNegative),
              Child("t3", PostLinkHint), Child("t3", PostText)>>)

\* posts that the filter all rejects
PayloadRejects == Listing(<<Child("t3", PostSpam), Child("t3", PostShort)>>)

\* no t3 child
PayloadComments == Listing(<<Child("t1", PostText)>>)

PayloadEmptyListing == Listing(<<>>)

PayloadEmptyDict == JDict(<<>>)

PayloadNotFound == JDict([error |-> JInt(404), message |-> JStr("Not Found")])

\* the single-post shape: data is a mapping without children
PayloadSinglePost ==
    JDict([data |-> JDict([title |-> JStr("Great long title"), score |-> JInt(15)])])

PayloadDataNull == JDict([data |-> JNull])

\* the list-of-listings shape of a direct post URL
PayloadList ==
    JList(<<Listing(<<Child("t3", PostText)>>), Listing(<<Child("t1", PostSpam)>>)>>)

\* a child that is no mapping, between two well-formed ones
PayloadBadChild ==
    Listing(<<Child("t3", PostText), JStr("oops"), Child("t3", PostLinkHint)>>)

\* a t3 child without data block, between two well-formed ones
PayloadNoDataChild ==
    Listing(<<Child("t3", PostText), JDict([kind |-> JStr("t3")]),
              Child("t3", PostLinkHint)>>)

\* the body "null"
PayloadNull == JNull

Payloads ==
    {PayloadGood, PayloadMixed, PayloadRejects, PayloadComments, PayloadEmptyListing,
     PayloadEmptyDict, PayloadNotFound, PayloadSinglePost, PayloadDataNull,
     PayloadList, PayloadBadChild, PayloadNoDataChild, PayloadNull}

\* bodies that are no JSON
HtmlPlain == "<html>blocked</html>"

HtmlDotAssign == "<script>window.__r = {\"data\": {\"title\": \"Great long title\", \"score\": 15}};</script>"

HtmlBackslashAssign == "<script>window\\.__r = {\"data\": {\"title\": \"Great long title\", \"score\": 15}};</script>"

HtmlBadAssign == "<script>window\\.__r = {oops};</script>"

HtmlBodies == {HtmlPlain, HtmlDotAssign, HtmlBackslashAssign, HtmlBadAssign}

\* json.loads(s) for the texts the bodies embed: [ok, v]
JsonLoads(s) ==
    CASE s = "{\"data\": {\"title\": \"Great long title\", \"score\": 15}}" ->
             [ok |-> TRUE, v |-> PayloadSinglePost]
      [] s = "{}" -> [ok |-> TRUE, v |-> PayloadEmptyDict]
      [] OTHER -> [ok |-> FALSE, v |-> JNull]

(***************************************************************************)
(* Network outcomes of one session.get call                                *)
(***************************************************************************)

\* a response whose body decodes to data
JsonBody(data) == [decodes |-> TRUE, data |-> data, text |-> "", errcls |-> ""]

\* a response whose body response.json() cannot decode; errcls is the class
\* response.json() raises, which depends on the installed requests/simplejson
TextBody(text, errcls) == [decodes |-> FALSE, data |-> JNull, text |-> text, errcls |-> errcls]

NoBody == TextBody("", "requests.JSONDecodeError")

Responded(status, body) == [kind |-> "response", status |-> status, body |-> body, exc |-> NoError]

Raised(cls, msg) == [kind |-> "raise", status |-> 0, body |-> NoBody, exc |-> Err(cls, msg)]

\* the outcome o as the code holds it after the request at req ("get": line
\* 170, "retry403": line 180, "retrySSL": line 191)
Sent(req, o) ==
    [req |-> req, kind |-> o.kind, status |-> o.status, body |-> o.body, exc |-> o.exc]

\* before the first session.get call
NoOutcome ==
    [req |-> "none", kind |-> "none", status |-> 0, body |-> NoBody, exc |-> NoError]

DecodeErrorClasses == {"requests.JSONDecodeError", "simplejson.JSONDecodeError"}

Outcomes ==
    {Responded(200, JsonBody(p)) : p \in Payloads}
    \cup {Responded(200, TextBody(t, c)) : t \in HtmlBodies, c \in DecodeErrorClasses}
    \cup {Responded(st, NoBody) : st \in {403, 404, 429, 500}}
    \cup {Raised("requests.ReadTimeout", "Read timed out."),
          Raised("requests.ConnectionError", "Max retries exceeded"),
          Raised("requests.SSLError", "certificate verify failed"),
          Raised("ssl.SSLError", "handshake failure"),
          Raised("requests.RetryError", "too many 429 error responses")}

(***************************************************************************)
(* Delays, in half seconds                                                 *)
(***************************************************************************)

\* time.sleep(1.5) before each variant's request
PolitenessDelay == 3

\* time.sleep(5) after a 429
RateLimitDelay == 10

\* time.sleep(1) between domain attempts
DomainDelay == 2

\* the variants of fallback_urls
NumVariants == 3

\* the largest value of time.time() the model draws
MaxTime == 2

(***************************************************************************)
(* _fetch_with_fallbacks: handling of one response                         *)
(***************************************************************************)

\* re.search(<the pattern of line 203>, text): [found, group]. The pattern is
\* a raw string whose \\. is an escaped backslash followed by any character:
\* "window", a backslash, one character that is no newline, "__r = ", then
\* the group: "{", as few characters as possible (no newline), "}", and
\* after the group ";".
GroupEnd(text, g) ==
    LET ends == {j \in (g + 1)..(Len(text) - 1) :
                    /\ Char(text, j) = "}"
                    /\ Char(text, j + 1) = ";"
                    /\ \A k \in (g + 1)..(j - 1) : Char(text, k) # "\n"}
    IN  IF ends = {} THEN 0 ELSE CHOOSE j \in ends : \A k \in ends : j <= k

SearchEmbedded(text) ==
    LET starts == {i \in 1..Len(text) :
                      /\ i + 14 <= Len(text)
                      /\ SubSeq(text, i, i + 6) = "window\\"
                      /\ Char(text, i + 7) # "\n"
                      /\ SubSeq(text, i + 8, i + 14) = "__r = {"
                      /\ GroupEnd(text, i + 14) # 0}
    IN  IF starts = {} THEN [found |-> FALSE, group |-> ""]
        ELSE LET i == CHOOSE k \in starts : \A m \in starts : k <= m
             IN  [found |-> TRUE, group |-> SubSeq(text, i + 14, GroupEnd(text, i + 14))]

\* lines 198-207, the handler of json.JSONDecodeError: [returns, v]
EmbeddedJson(text) ==
    IF text = "" THEN [returns |-> FALSE, v |-> JNull]
    ELSE LET m == SearchEmbedded(text)
         IN  IF ~m.found THEN [returns |-> FALSE, v |-> JNull]
             ELSE LET parsed == JsonLoads(m.group)
                  IN  IF parsed.ok THEN [returns |-> TRUE, v |-> parsed.v]
                      ELSE [returns |-> FALSE, v |-> JNull]   \* except Exception: continue

\* the handling of a primary response with "return None" for the continue of
\* line 186
OnPrimaryAbortOn429(o) ==
    IF o.kind = "raise"
    THEN IF IsInstance(o.exc, "ssl.SSLError")
         THEN [do |-> "retrySSL", v |-> JNull, sleep |-> 0]
         ELSE [do |-> "next", v |-> JNull, sleep |-> 0]
    ELSE IF o.status = 200
    THEN IF o.body.decodes
         THEN IF ValidateResponse(o.body.data)
              THEN [do |-> "return", v |-> o.body.data, sleep |-> 0]
              ELSE [do |-> "next", v |-> JNull, sleep |-> 0]
         ELSE IF IsSubclass(o.body.errcls, "json.JSONDecodeError")
              THEN LET e == EmbeddedJson(o.body.text)
                   IN  IF e.returns THEN [do |-> "return", v |-> e.v, sleep |-> 0]
                       ELSE [do |-> "next", v |-> JNull, sleep |-> 0]
              ELSE [do |-> "next", v |-> JNull, sleep |-> 0]
    ELSE IF o.status = 403
    THEN [do |-> "retry403", v |-> JNull, sleep |-> 0]
    ELSE IF o.status = 429
    THEN [do |-> "return", v |-> JNull, sleep |-> 0]
    ELSE [do |-> "next", v |-> JNull, sleep |-> 0]

\* What the loop body does with the outcome o of the request of line 170:
\*   "return"   : _fetch_with_fallbacks returns v
\*   "retry403" : the request of line 180 follows
\*   "retrySSL" : the request of line 191 follows
\*   "next"     : the next variant follows, after sleeping `sleep`
OnPrimary(o) ==
    IF o.kind = "raise"
    THEN IF IsInstance(o.exc, "ssl.SSLError")
         THEN [do |-> "retrySSL", v |-> JNull, sleep |-> 0]
         ELSE [do |-> "next", v |-> JNull, sleep |-> 0]
    ELSE IF o.status = 200
    THEN IF o.body.decodes
         THEN IF ValidateResponse(o.body.data)
              THEN [do |-> "return", v |-> o.body.data, sleep |-> 0]
              ELSE [do |-> "next", v |-> JNull, sleep |-> 0]
         ELSE IF IsSubclass(o.body.errcls, "json.JSONDecodeError")
              THEN LET e == EmbeddedJson(o.body.text)
                   IN  IF e.returns THEN [do |-> "return", v |-> e.v, sleep |-> 0]
                       ELSE [do |-> "next", v |-> JNull, sleep |-> 0]
              ELSE [do |-> "next", v |-> JNull, sleep |-> 0]
    ELSE IF o.status = 403
    THEN [do |-> "retry403", v |-> JNull, sleep |-> 0]
    ELSE IF o.status = 429
    THEN [do |-> "next", v |-> JNull, sleep |-> RateLimitDelay]
    ELSE [do |-> "next", v |-> JNull, sleep |-> 0]

\* the handling of the alternate-header response with a further
\* alternate-header request on another 403
OnRetry403Again(o) ==
    IF o.kind = "raise"
    THEN IF IsInstance(o.exc, "ssl.SSLError")
         THEN [do |-> "retrySSL", v |-> JNull, sleep |-> 0]
         ELSE [do |-> "next", v |-> JNull, sleep |-> 0]
    ELSE IF o.status = 200
    THEN IF o.body.decodes
         THEN [do |-> "return", v |-> o.body.data, sleep |-> 0]
         ELSE IF IsSubclass(o.body.errcls, "json.JSONDecodeError")
              THEN LET e == EmbeddedJson(o.body.text)
                   IN  IF e.returns THEN [do |-> "return", v |-> e.v, sleep |-> 0]
                       ELSE [do |-> "next", v |-> JNull, sleep |-> 0]
              ELSE [do |-> "next", v |-> JNull, sleep |-> 0]
    ELSE IF o.status = 403
    THEN [do |-> "retry403", v |-> JNull, sleep |-> 0]
    ELSE [do |-> "next", v |-> JNull, sleep |-> 0]

\* the same for the outcome of the alternate-header request of line 180
OnRetry403(o) ==
    IF o.kind = "raise"
    THEN IF IsInstance(o.exc, "ssl.SSLError")
         THEN [do |-> "retrySSL", v |-> JNull, sleep |-> 0]
         ELSE [do |-> "next", v |-> JNull, sleep |-> 0]
    ELSE IF o.status = 200
    THEN IF o.body.decodes
         THEN [do |-> "return", v |-> o.body.data, sleep |-> 0]
         ELSE IF IsSubclass(o.body.errcls, "json.JSONDecodeError")
              THEN LET e == EmbeddedJson(o.body.text)
                   IN  IF e.returns THEN [do |-> "return", v |-> e.v, sleep |-> 0]
                       ELSE [do |-> "next", v |-> JNull, sleep |-> 0]
              ELSE [do |-> "next", v |-> JNull, sleep |-> 0]
    ELSE [do |-> "next", v |-> JNull, sleep |-> 0]

\* the handling of the verify=False response with a further verify=False
\* request on another ssl.SSLError
OnRetrySSLAgain(o) ==
    IF o.kind = "response" /\ o.status = 200 /\ o.body.decodes
    THEN [do |-> "return", v |-> o.body.data, sleep |-> 0]
    ELSE IF o.kind = "raise" /\ IsInstance(o.exc, "ssl.SSLError")
    THEN [do |-> "retrySSL", v |-> JNull, sleep |-> 0]
    ELSE [do |-> "next", v |-> JNull, sleep |-> 0]

\* the same for the outcome of the verify=False request of line 191, whose
\* exceptions all end in "except Exception: continue"
OnRetrySSL(o) ==
    IF o.kind = "response" /\ o.status = 200 /\ o.body.decodes
    THEN [do |-> "return", v |-> o.body.data, sleep |-> 0]
    ELSE [do |-> "next", v |-> JNull, sleep |-> 0]

(***************************************************************************)
(* _run as a state machine: one action per network call, each taking the   *)
(* code from that call to the next call or to the return                   *)
(***************************************************************************)

\* the suffixes of fallback_urls (lines 158-162)
VariantSuffix == <<"", "?limit=25", "?sort=hot&limit=25">>

\* the URL the current request goes to
CurrentUrl == api_urls[ei] \o VariantSuffix[vi]

NotReturned == [returned |-> FALSE]

\* x is a listing object: {"data": {"children": [...]}} with at least one child
IsListing(x) ==
    /\ x.ty = "dict"
    /\ "data" \in DOMAIN x.v
    /\ x.v["data"].ty = "dict"
    /\ "children" \in DOMAIN x.v["data"].v
    /\ x.v["data"].v["children"].ty = "list"
    /\ Len(x.v["data"].v["children"].v) > 0

\* x is a non-empty list of listing objects (the payload of a direct post URL)
IsListOfListings(x) ==
    /\ x.ty = "list"
    /\ Len(x.v) > 0
    /\ \A i \in 1..Len(x.v) : IsListing(x.v[i])

\* history: the class of a network outcome
OutcomeClass(o) ==
    IF o.kind = "response" /\ o.status = 429 THEN "429"
    ELSE IF o.kind = "raise" /\ IsInstance(o.exc, "requests.Timeout") THEN "timeout"
    ELSE IF o.kind = "raise" /\ IsInstance(o.exc, "requests.ConnectionError") THEN "connection"
    ELSE IF /\ o.kind = "response" /\ o.status = 200 /\ o.body.decodes
            /\ IsListOfListings(o.body.data)
    THEN "listings"
    ELSE IF /\ o.kind = "response" /\ o.status = 200 /\ o.body.decodes
            /\ ~(/\ o.body.data.ty = "dict"
                 /\ "data" \in DOMAIN o.body.data.v
                 /\ o.body.data.v["data"].ty = "dict"
                 /\ "children" \in DOMAIN o.body.data.v["data"].v)
    THEN "nochildren"
    ELSE "other"

Observe(h, o) ==
    LET c == OutcomeClass(o)
    IN  IF c = "other" THEN "mixed"
        ELSE IF h = "none" \/ h = c THEN c
        ELSE "mixed"

\* handlers that take requests' exceptions only
RunHandlerNarrow(e) ==
    IF IsInstance(e, "requests.RequestException") THEN "inner"
    ELSE "uncaught"

\* which handler of _run takes an exception raised inside the loop body:
\* "inner" (line 105), "outer" (line 115) or "uncaught"
RunHandler(e) ==
    IF IsInstance(e, "Exception") THEN "inner"
    ELSE IF IsInstance(e, "Exception") THEN "outer"
    ELSE "uncaught"

\* the values time.time() may return when the result is formatted (seconds
\* since the epoch: positive)
Times == 1..MaxTime

\* The loop of line 88 moves on from endpoint ei, sl half seconds after the
\* last request: by "continue" with last_error e (raised), or past the sleep
\* of line 110. After the last endpoint _handle_fetch_failure makes the
\* return value.
EndpointDone(raised, e, sl) ==
    /\ last_error' = e
    /\ slept' = IF raised THEN sl ELSE sl + DomainDelay
    /\ IF ei < Len(api_urls)
       THEN /\ pc' = "get"
            /\ ei' = ei + 1
            /\ vi' = 1
            /\ vreq' = 0
            /\ ret' = ret
       ELSE /\ pc' = "done"
            /\ \E now \in Times : ret' = HandleFetchFailure(source, source_type, e, now)
            /\ UNCHANGED <<ei, vi, vreq>>

\* lines 97-104 with the first URL for domain_url
FilteredFirstUrl(f, sl) ==
    /\ filtered' = f
    /\ IF f = <<>>
       THEN EndpointDone(FALSE, last_error, sl)
       ELSE /\ pc' = "done"
            /\ ret' = SuccessResult(f, source, source_type, api_urls[1])
            /\ slept' = sl
            /\ UNCHANGED <<ei, vi, vreq, last_error>>

\* lines 102-110: _filter_posts returned f
Filtered(f, sl) ==
    /\ filtered' = f
    /\ IF f = <<>>
       THEN EndpointDone(FALSE, last_error, sl)
       ELSE /\ pc' = "done"
            /\ ret' = SuccessResult(f, source, source_type, api_urls[ei])
            /\ slept' = sl
            /\ UNCHANGED <<ei, vi, vreq, last_error>>

\* lines 93-110: _extract_posts raised x.exc or returned x.posts
Extracted(x, sl) ==
    IF x.exc # NoError
    THEN /\ UNCHANGED <<posts, filtered>>
         /\ CASE RunHandler(x.exc) = "inner" -> EndpointDone(TRUE, x.exc, sl)
              [] RunHandler(x.exc) = "outer" ->
                     /\ pc' = "done"
                     /\ \E now \in Times : ret' = UnexpectedError(x.exc, now)
                     /\ slept' = sl
                     /\ UNCHANGED <<ei, vi, vreq, last_error>>
              [] OTHER ->
                     /\ pc' = "raised"
                     /\ slept' = sl
                     /\ UNCHANGED <<ei, vi, vreq, last_error, ret>>
    ELSE /\ posts' = x.posts
         /\ IF x.posts = <<>>
            THEN /\ filtered' = filtered
                 /\ EndpointDone(FALSE, last_error, sl)
            ELSE Filtered(FilterPosts(x.posts, min_words, min_score, limit), sl)

\* _fetch_with_fallbacks returned r, sl half seconds after the last request:
\* lines 91-110
FetchReturned(r, sl) ==
    /\ result' = r
    /\ IF ~Truthy(r)
       THEN /\ EndpointDone(FALSE, last_error, sl)
            /\ UNCHANGED <<posts, filtered>>
       ELSE Extracted(ExtractPosts(r), sl)

\* what follows the handling d of the outcome of a request
Continue(d) ==
    CASE d.do = "return" -> FetchReturned(d.v, 0)
      [] d.do = "next" /\ vi < NumVariants ->
             /\ pc' = "get"
             /\ vi' = vi + 1
             /\ vreq' = 0
             /\ slept' = d.sleep
             /\ UNCHANGED <<ei, result, last_error, ret, posts, filtered>>
      [] d.do = "next" /\ vi >= NumVariants -> FetchReturned(JNull, d.sleep)
      [] OTHER ->
             /\ pc' = d.do
             /\ vreq' = vreq + 1
             /\ slept' = 0
             /\ UNCHANGED <<ei, vi, result, last_error, ret, posts, filtered>>

RunInputs == <<mode, source, source_ty, source_type, sort_type, min_words, min_score, limit>>

\* source.replace (lines 133, 141) on a source of type ty that is no string
SourceAttributeError(ty) ==
    Err("AttributeError", "'" \o ty \o "' object has no attribute 'replace'")

\* _build_api_urls(source, source_type, sort_type) for a source of type ty:
\* [exc, urls]. On a source that is no string source.replace raises; for
\* source_type "url" what urlparse or the test of line 148 raises is caught
\* by line 151 for each domain, and no URL is built.
BuildResult(ty, src, stype, sort) ==
    IF ty = "str" THEN [exc |-> NoError, urls |-> BuildApiUrls(src, stype, sort)]
    ELSE IF stype \in {"subreddit", "user"}
    THEN [exc |-> SourceAttributeError(ty), urls |-> <<>>]
    ELSE [exc |-> NoError, urls |-> <<>>]

\* lines 78-87: _build_api_urls returned urls
UrlsBuilt(urls) ==
    /\ api_urls' = urls
    /\ IF urls = <<>>
       THEN /\ pc' = "done"
            /\ \E now \in Times : ret' = InvalidSourceError(source_type, now)
            /\ UNCHANGED <<ei, vi>>
       ELSE /\ pc' = "get"
            /\ ei' = 1
            /\ vi' = 1
            /\ ret' = ret

\* lines 115-120: e was raised outside the try of line 89
OuterHandler(e) ==
    /\ UNCHANGED <<api_urls, ei, vi>>
    /\ IF IsInstance(e, "Exception")
       THEN /\ pc' = "done"
            /\ \E now \in Times : ret' = UnexpectedError(e, now)
       ELSE /\ pc' = "raised"
            /\ ret' = ret

\* the calls of _run the behaviours start from
RunSources ==
    {[source |-> "python", source_ty |-> "str", source_type |-> "subreddit",
      sort_type |-> "new"],
     [source |-> "u/bob", source_ty |-> "str", source_type |-> "user", sort_type |-> "hot"],
     [source |-> "https://www.reddit.com/r/a/comments/1/", source_ty |-> "str",
      source_type |-> "url", sort_type |-> "hot"],
     [source |-> "badname!!", source_ty |-> "str", source_type |-> "url",
      sort_type |-> "hot"],
     [source |-> "python", source_ty |-> "str", source_type |-> "channel",
      sort_type |-> "hot"]}

RunThresholds ==
    {[min_words |-> 0, min_score |-> 0,  limit |-> 2],
     [min_words |-> 5, min_score |-> 10, limit |-> 1]}

\* the types of a source that is no string
OtherSourceTypes == {"NoneType", "int"}

\* calls of _run with a source that is no string
UntypedSources ==
    {[source |-> "", source_ty |-> ty, source_type |-> st, sort_type |-> "hot"] :
        ty \in OtherSourceTypes, st \in {"subreddit", "user", "url"}}

\* _build_api_urls for each call of _run the behaviours start from
RunBuilt ==
    [s \in RunSources \cup UntypedSources |->
        BuildResult(s.source_ty, s.source, s.source_type, s.sort_type)]

\* line 78: the value of _build_api_urls(source, source_type, sort_type)
BuildOf(ty, src, stype, sort) ==
    RunBuilt[[source |-> src, source_ty |-> ty, source_type |-> stype, sort_type |-> sort]]

\* lines 76-87: build the URLs; no URL is INVALID_SOURCE
RunStart ==
    /\ mode = "run" /\ pc = "start"
    /\ IF BuildOf(source_ty, source, source_type, sort_type).exc # NoError
       THEN OuterHandler(BuildOf(source_ty, source, source_type, sort_type).exc)
       ELSE UrlsBuilt(BuildOf(source_ty, source, source_type, sort_type).urls)
    /\ UNCHANGED <<RunInputs, result, last_error, slept, vreq, hist, last, posts, filtered>>

\* lines 167-186: the politeness delay, the request of a variant, its outcome
Request ==
    /\ mode = "run" /\ pc = "get"
    /\ \E o \in Outcomes :
          /\ hist' = Observe(hist, o)
          /\ last' = Sent(pc, o)
          /\ Continue(OnPrimary(o))
    /\ UNCHANGED <<RunInputs, api_urls>>

\* lines 179-182: the request with the alternate headers, its outcome
Retry403 ==
    /\ mode = "run" /\ pc = "retry403"
    /\ \E o \in Outcomes :
          /\ hist' = Observe(hist, o)
          /\ last' = Sent(pc, o)
          /\ Continue(OnRetry403(o))
    /\ UNCHANGED <<RunInputs, api_urls>>

\* lines 190-195: the request with verify=False, its outcome
RetrySSL ==
    /\ mode = "run" /\ pc = "retrySSL"
    /\ \E o \in Outcomes :
          /\ hist' = Observe(hist, o)
          /\ last' = Sent(pc, o)
          /\ Continue(OnRetrySSL(o))
    /\ UNCHANGED <<RunInputs, api_urls>>

\* _run is called with one of the arguments srcs
RunInit(srcs) ==
    /\ mode = "run"
    /\ pc = "start"
    /\ \E s \in srcs :
          /\ source = s.source
          /\ source_ty = s.source_ty
          /\ source_type = s.source_type
          /\ sort_type = s.sort_type
    /\ \E th \in RunThresholds :
          /\ min_words = th.min_words
          /\ min_score = th.min_score
          /\ limit = th.limit
    /\ api_urls = <<>>
    /\ ei = 0
    /\ vi = 0
    /\ result = JNull
    /\ last_error = NoError
    /\ ret = NotReturned
    /\ slept = 0
    /\ vreq = 0
    /\ hist = "none"
    /\ last = NoOutcome
    /\ posts = <<>>
    /\ filtered = <<>>

Init == RunInit(RunSources)

Next == RunStart \/ Request \/ Retry403 \/ RetrySSL

Spec == Init /\ [][Next]_vars

\* _run called with a source of any type
InitUntyped == RunInit(RunSources \cup UntypedSources)

SpecUntyped == InitUntyped /\ [][Next]_vars

(***************************************************************************)
(* _build_api_urls called on its own                                       *)
(***************************************************************************)

\* the longest source name drawn
MaxNameLen == 3

NameAlphabet == {"r", "u", "/", "a"}

RECURSIVE NamesOfLen(_)
NamesOfLen(n) ==
    IF n = 0 THEN {""}
    ELSE {s \o c : s \in NamesOfLen(n - 1), c \in NameAlphabet}

BuildNames == UNION {NamesOfLen(n) : n \in 0..MaxNameLen}

UrlSources ==
    {"https://www.reddit.com/r/a/comments/1/",
     "https://old.reddit.com/r/a",
     "http://reddit.com",
     "https://example.com/r/a/",
     "https://example.com/reddit.com/x",
     "www.reddit.com/r/a",
     "http://[reddit.com/r/a",
     "badname!!"}

\* sources with the prefix and a trailing slash, as users write them
PrefixedSources == {"r/popular/", "u/guru/", "r/python"}

BuildSourceTypes == {"subreddit", "user", "url", "channel"}

BuildSortTypes == SortTypes \cup {"best", ""}

\* the variables _build_api_urls and _filter_posts leave alone
RunIdle ==
    /\ ei = 0
    /\ vi = 0
    /\ result = JNull
    /\ last_error = NoError
    /\ ret = NotReturned
    /\ slept = 0
    /\ vreq = 0
    /\ hist = "none"
    /\ last = NoOutcome

InitBuild ==
    /\ mode = "build"
    /\ pc = "start"
    /\ source_ty = "str"
    /\ source \in BuildNames \cup UrlSources \cup PrefixedSources
    /\ source_type \in BuildSourceTypes
    /\ sort_type \in BuildSortTypes
    /\ min_words = 0
    /\ min_score = 0
    /\ limit = 1
    /\ api_urls = <<>>
    /\ posts = <<>>
    /\ filtered = <<>>
    /\ RunIdle

\* lines 122-154
Build ==
    /\ mode = "build" /\ pc = "start"
    /\ api_urls' = BuildApiUrls(source, source_type, sort_type)
    /\ pc' = "done"
    /\ UNCHANGED <<RunInputs, ei, vi, result, last_error, ret, slept, vreq, hist, last,
                   posts, filtered>>

NextBuild == Build

SpecBuild == InitBuild /\ [][NextBuild]_vars

(***************************************************************************)
(* _filter_posts called on its own                                         *)
(***************************************************************************)

\* the longest list of raw posts drawn
MaxPosts == 2

\* the largest limit drawn
MaxLimit == 2

MinWordsValues == {0, 5}

MinScoreValues == {0, 13}

SeqsUpTo(S, n) == UNION {[1..k -> S] : k \in 0..n}

InitFilter ==
    /\ mode = "filter"
    /\ pc = "start"
    /\ source_ty = "str"
    /\ source = ""
    /\ source_type = "subreddit"
    /\ sort_type = "hot"
    /\ posts \in SeqsUpTo(RawPosts, MaxPosts)
    /\ min_words \in MinWordsValues
    /\ min_score \in MinScoreValues
    /\ limit \in 1..MaxLimit
    /\ api_urls = <<>>
    /\ filtered = <<>>
    /\ RunIdle

\* lines 253-324
Filter ==
    /\ mode = "filter" /\ pc = "start"
    /\ filtered' = FilterPosts(posts, min_words, min_score, limit)
    /\ pc' = "done"
    /\ UNCHANGED <<RunInputs, api_urls, ei, vi, result, last_error, ret, slept,
                   vreq, hist, last, posts>>

NextFilter == Filter

SpecFilter == InitFilter /\ [][NextFilter]_vars

(***************************************************************************)
(* _filter_posts called on one self post of a given number of words       *)
(***************************************************************************)

\* the largest number of words of the post drawn
MaxWords == 51

\* the default min_words (line 68), also the min_words of scenario B
DefaultMinWords == 50

RECURSIVE Words(_)
\* a text of k words, each longer than two characters
Words(k) ==
    IF k = 0 THEN ""
    ELSE IF k = 1 THEN "word"
    ELSE Words(k - 1) \o " word"

\* a self post whose title and selftext have n words together (n >= 1),
\* with a score of 15
WordsPost(n) ==
    JDict([title |-> JStr("Title"), selftext |-> JStr(Words(n - 1)),
           is_self |-> JBool(TRUE), score |-> JInt(15)])

InitThreshold ==
    /\ mode = "filter"
    /\ pc = "start"
    /\ source_ty = "str"
    /\ source = ""
    /\ source_type = "subreddit"
    /\ sort_type = "hot"
    /\ \E n \in 2..MaxWords :
          /\ posts = <<WordsPost(n)>>
          /\ min_words \in {n - 1, n, n + 1, DefaultMinWords}
    /\ min_score \in MinScoreValues
    /\ limit = 1
    /\ api_urls = <<>>
    /\ filtered = <<>>
    /\ RunIdle

SpecThreshold == InitThreshold /\ [][NextFilter]_vars

(***************************************************************************)
(* _handle_fetch_failure called on its own                                 *)
(***************************************************************************)

\* the values of last_error drawn: None, exceptions of requests, exceptions
\* whose message names a status, and exceptions the classifier does not know
ClassifyErrors ==
    {NoError,
     Err("requests.Timeout", "timed out"),
     Err("requests.ReadTimeout", "Read timed out. (read timeout=15)"),
     Err("requests.ReadTimeout", "404 Not Found, then 429"),
     Err("requests.ConnectTimeout", "Connection to www.reddit.com timed out"),
     Err("requests.ConnectionError", "Connection refused"),
     Err("requests.SSLError", "certificate verify failed"),
     Err("requests.HTTPError", "403 Client Error: Forbidden for url"),
     Err("RuntimeError", "Forbidden"),
     Err("requests.HTTPError", "404 Client Error: Not Found for url"),
     Err("RuntimeError", "Not Found"),
     Err("requests.HTTPError", "429 Client Error: Too Many Requests for url"),
     Err("requests.RetryError", "too many 429 error responses"),
     Err("RuntimeError", "Rate Limit exceeded"),
     Err("RuntimeError", "403 after 404"),
     Err("RuntimeError", "forbidden"),
     Err("AttributeError", "'str' object has no attribute 'get'"),
     Err("KeyError", "'data'"),
     Err("ValueError", "boom")}

InitClassify ==
    /\ mode = "classify"
    /\ pc = "start"
    /\ source_ty = "str"
    /\ \E s \in RunSources :
          /\ source = s.source
          /\ source_type = s.source_type
          /\ sort_type = s.sort_type
    /\ min_words = 0
    /\ min_score = 0
    /\ limit = 1
    /\ api_urls = <<>>
    /\ ei = 0
    /\ vi = 0
    /\ result = JNull
    /\ last_error \in ClassifyErrors
    /\ ret = NotReturned
    /\ slept = 0
    /\ vreq = 0
    /\ hist = "none"
    /\ last = NoOutcome
    /\ posts = <<>>
    /\ filtered = <<>>

\* lines 371-409
Classify ==
    /\ mode = "classify" /\ pc = "start"
    /\ \E now \in Times : ret' = HandleFetchFailure(source, source_type, last_error, now)
    /\ pc' = "done"
    /\ UNCHANGED <<RunInputs, api_urls, ei, vi, result, last_error, slept, vreq,
                   hist, last, posts, filtered>>

NextClassify == Classify

SpecClassify == InitClassify /\ [][NextClassify]_vars

(***************************************************************************)
(* _determine_post_type called on its own                                  *)
(***************************************************************************)

\* a field the post does not have
Absent == [ty |-> "absent", v |-> 0]

\* the values of the fields _determine_post_type reads
IsSelfValues == {Absent, JBool(TRUE), JBool(FALSE)}

PostHintValues ==
    {Absent, JNull, JStr("image"), JStr("rich:video"), JStr("link"), JStr("hosted:video")}

IsVideoValues == {Absent, JBool(TRUE), JBool(FALSE)}

UrlValues ==
    {Absent, JNull, JStr(""), JStr("https://www.reddit.com/r/a/comments/1/"),
     JStr("https://example.com/a"), JStr("https://i.redd.it/a.jpg")}

\* the raw post with the given fields, those that are Absent left out
TypedPost(is_self, post_hint, is_video, url) ==
    LET fields == [is_self |-> is_self, post_hint |-> post_hint,
                   is_video |-> is_video, url |-> url]
    IN  JDict([k \in {f \in DOMAIN fields : fields[f] # Absent} |-> fields[k]])

TypedPosts ==
    {TypedPost(s, h, v, u) : s \in IsSelfValues, h \in PostHintValues,
                              v \in IsVideoValues, u \in UrlValues}

InitPostType ==
    /\ mode = "post_type"
    /\ pc = "start"
    /\ source_ty = "str"
    /\ source = "python"
    /\ source_type = "subreddit"
    /\ sort_type = "hot"
    /\ min_words = 0
    /\ min_score = 0
    /\ limit = 1
    /\ api_urls = <<>>
    /\ \E post \in TypedPosts : posts = <<post>>
    /\ filtered = <<>>
    /\ RunIdle

\* lines 326-341
DetermineType ==
    /\ mode = "post_type" /\ pc = "start"
    /\ ret' = DeterminePostType(posts[1])
    /\ pc' = "done"
    /\ UNCHANGED <<RunInputs, api_urls, ei, vi, result, last_error, slept, vreq,
                   hist, last, posts, filtered>>

NextPostType == DetermineType

SpecPostType == InitPostType /\ [][NextPostType]_vars

(***************************************************************************)
(* _validate_response and _extract_posts called on their own               *)
(***************************************************************************)

\* the longest list of children drawn
MaxChildren == 3

\* the children the listings drawn are made of: two well-formed posts, a
\* comment, a post without data block, a child that is no mapping
ChildPool ==
    {Child("t3", PostText), Child("t3", PostLinkHint), Child("t1", PostSpam),
     JDict([kind |-> JStr("t3")]), JStr("oops")}

\* decoded values of other shapes
OddPayloads ==
    {JList(<<>>),
     JList(<<PayloadGood, PayloadMixed>>),
     JList(<<JStr("data")>>),
     JStr("data"),
     JInt(5),
     JBool(TRUE),
     JDict([data |-> JDict([children |-> JStr("abc")])]),
     JDict([data |-> JDict([children |-> JStr("")])]),
     JDict([data |-> JDict([children |-> JDict([kind |-> JStr("t3")])])]),
     JDict([data |-> JDict([children |-> JDict(<<>>)])]),
     JDict([data |-> JDict([children |-> JInt(3)])]),
     JDict([data |-> JDict([children |-> JNull])]),
     JDict([data |-> JList(<<JStr("children")>>)]),
     JDict([data |-> JStr("children")]),
     JDict([data |-> JInt(1)])}

PayloadInputs ==
    {Listing(cs) : cs \in SeqsUpTo(ChildPool, MaxChildren)} \cup Payloads \cup OddPayloads

InitPayload ==
    /\ mode = "payload"
    /\ pc = "start"
    /\ source_ty = "str"
    /\ source = ""
    /\ source_type = "subreddit"
    /\ sort_type = "hot"
    /\ min_words = 0
    /\ min_score = 0
    /\ limit = 1
    /\ api_urls = <<>>
    /\ ei = 0
    /\ vi = 0
    /\ result \in PayloadInputs
    /\ last_error = NoError
    /\ ret = NotReturned
    /\ slept = 0
    /\ vreq = 0
    /\ hist = "none"
    /\ last = NoOutcome
    /\ posts = <<>>
    /\ filtered = <<>>

\* lines 213-223: ret is the boolean returned
Validate ==
    /\ mode = "payload" /\ pc = "start"
    /\ ret' = [accepted |-> ValidateResponse(result)]
    /\ pc' = "validated"
    /\ UNCHANGED <<RunInputs, api_urls, ei, vi, result, last_error, slept, vreq,
                   hist, last, posts, filtered>>

\* lines 225-251: posts is the list returned, last_error the exception that
\* left the function
Extract ==
    /\ mode = "payload" /\ pc = "start"
    /\ posts' = ExtractPosts(result).posts
    /\ last_error' = ExtractPosts(result).exc
    /\ pc' = "extracted"
    /\ UNCHANGED <<RunInputs, api_urls, ei, vi, result, ret, slept, vreq, hist, last,
                   filtered>>

NextPayload == Validate \/ Extract

SpecPayload == InitPayload /\ [][NextPayload]_vars

(***************************************************************************)
(* Properties of _run (checked under Spec)                                 *)
(***************************************************************************)

\* C1: whatever the inputs and the network outcomes, _run never raises to
\* its caller: it is at one of its network calls or has returned, and what
\* it returns is a Success record (success true, with posts) or a Failure
\* record (success false, with an error_code).
C1_RunReturnsRecord ==
    /\ pc # "raised"
    /\ pc \in {"start", "get", "retry403", "retrySSL", "done"}
    /\ pc = "done" =>
          \/ /\ ret.success = TRUE
             /\ "posts" \in DOMAIN ret
             /\ Len(ret.posts) >= 1
          \/ /\ ret.success = FALSE
             /\ "error_code" \in DOMAIN ret
             /\ ret.error_code # ""

\* _extract_posts raised inside the loop body and _run still returned
C1_Witness ==
    /\ pc = "done"
    /\ last_error.cls = "AttributeError"
    /\ ret.success = FALSE

\* C2: _fetch_with_fallbacks returns a payload only if _validate_response
\* accepts it, on every path (status 200, the 403 retry, the verify=False
\* retry, the embedded JSON); otherwise it returns None.
C2_FetchReturnsValidated ==
    result # JNull => ValidateResponse(result)

\* C3: Scenario C: when every request of every variant of both mirrors is
\* answered 429, _run returns a Failure with error_code RATE_LIMITED and a
\* nonzero timestamp.
C3_AllRateLimited ==
    (pc = "done" /\ hist = "429" /\ Len(api_urls) = 2) =>
        /\ ret.success = FALSE
        /\ ret.error_code = "RATE_LIMITED"
        /\ ret.timestamp # 0

\* C4: Scenario D: as long as every response is a status-200 JSON payload
\* without data.children, no payload is accepted (nothing is returned by the
\* fetch, no retry request is made), and _run returns only after the last
\* variant of the last endpoint, with a Failure NO_VALID_CONTENT.
C4_NoChildrenExhausts ==
    hist = "nochildren" =>
        /\ result = JNull
        /\ posts = <<>>
        /\ pc \in {"get", "done"}
        /\ pc = "done" =>
              /\ ei = Len(api_urls)
              /\ vi = NumVariants
              /\ ret.success = FALSE
              /\ ret.error_code = "NO_VALID_CONTENT"

\* both endpoints were exhausted by payloads without data.children
C4_Witness ==
    /\ pc = "done"
    /\ hist = "nochildren"
    /\ ei = 2
    /\ vi = NumVariants

\* C5: when the URL builder yields no URL (source_type url with a host that
\* lacks the canonical domain, or an unrecognized source_type), _run returns
\* a Failure INVALID_SOURCE without any network request and without raising.
C5_NoUrlsInvalidSource ==
    LET unbuildable ==
            \/ source_type \notin {"subreddit", "user", "url"}
            \/ /\ source_type = "url"
               /\ \/ ~UrlParse(source).ok
                  \/ ~Contains(UrlParse(source).netloc, "reddit.com")
    IN  (pc # "start" /\ (unbuildable \/ api_urls = <<>>)) =>
            /\ pc = "done"
            /\ api_urls = <<>>
            /\ ret.success = FALSE
            /\ ret.error_code = "INVALID_SOURCE"
            /\ hist = "none"
            /\ ei = 0
            /\ vreq = 0

\* Scenario E has returned
C5_Witness ==
    /\ pc = "done"
    /\ source = "badname!!"
    /\ source_type = "url"
    /\ ret.error_code = "INVALID_SOURCE"

(***************************************************************************)
(* Properties of _build_api_urls (checked under SpecBuild)                 *)
(***************************************************************************)

\* the mirrors in their fallback order
MirrorOrder == <<"www.reddit.com", "old.reddit.com">>

\* url is "https://" host prefix <name> suffix for some <name>
MatchesTemplate(url, host, prefix, suffix) ==
    /\ StartsWith(url, "https://" \o host \o prefix)
    /\ EndsWith(url, suffix)
    /\ Len(url) >= Len("https://" \o host \o prefix) + Len(suffix)

\* the <name> of a url matching the template
TemplateName(url, host, prefix, suffix) ==
    SubSeq(url, Len("https://" \o host \o prefix) + 1, Len(url) - Len(suffix))

\* C6: for source_type subreddit or user and every sort, _build_api_urls
\* returns one URL per mirror, www first and old second, each of the shape
\* /r/<name>/<sort>.json (hot for an unrecognized sort) or
\* /user/<name>/submitted.json, with the same <name>; for source_type url a
\* source whose host lacks the canonical domain yields no entry; and a
\* second call on the same input yields the same list.
C6_BuildApiUrlsShape ==
    pc = "done" =>
        /\ source_type = "subreddit" =>
              LET suffix == "/" \o (IF sort_type \in {"hot", "new", "top", "rising"}
                                    THEN sort_type ELSE "hot") \o ".json"
              IN  /\ Len(api_urls) = Len(MirrorOrder)
                  /\ \A i \in 1..Len(MirrorOrder) :
                        /\ MatchesTemplate(api_urls[i], MirrorOrder[i], "/r/", suffix)
                        /\ TemplateName(api_urls[i], MirrorOrder[i], "/r/", suffix)
                              = TemplateName(api_urls[1], MirrorOrder[1], "/r/", suffix)
        /\ source_type = "user" =>
              /\ Len(api_urls) = Len(MirrorOrder)
              /\ \A i \in 1..Len(MirrorOrder) :
                    /\ MatchesTemplate(api_urls[i], MirrorOrder[i], "/user/",
                                       "/submitted.json")
                    /\ TemplateName(api_urls[i], MirrorOrder[i], "/user/", "/submitted.json")
                          = TemplateName(api_urls[1], MirrorOrder[1], "/user/",
                                         "/submitted.json")
        /\ (source_type = "url" /\ UrlParse(source).ok
              /\ ~Contains(UrlParse(source).netloc, "reddit.com")) => api_urls = <<>>
        /\ api_urls = BuildApiUrls(source, source_type, sort_type)

\* a subreddit with an unrecognized sort got its two URLs
C6_Witness ==
    /\ pc = "done"
    /\ source_type = "subreddit"
    /\ sort_type = "best"
    /\ source = "r/a"
    /\ api_urls = <<"https://www.reddit.com/r/a/hot.json",
                    "https://old.reddit.com/r/a/hot.json">>

(***************************************************************************)
(* Properties of _filter_posts (checked under SpecFilter)                  *)
(***************************************************************************)

\* the markdown punctuation the word count is meant to drop (a backquote
\* cannot be written in a string here; no text of the model holds one)
MarkdownPunctuation == "*_#[]()"

RECURSIVE StripMarkdown(_)
StripMarkdown(s) ==
    IF Len(s) <= 1 THEN (IF CharIn(s, MarkdownPunctuation) THEN " " ELSE s)
    ELSE StripMarkdown(SubSeq(s, 1, Len(s) \div 2))
            \o StripMarkdown(DropFirst(s, Len(s) \div 2))

\* the word count as the specification words it: tokens longer than two
\* characters after HTML entities and markdown punctuation are dropped
IntendedWordCount(full_text) ==
    Len(LongWords(Split(StripMarkdown(SubEntities(full_text)))))

\* C7: a post whose word count (tokens longer than two characters of title
\* plus display text, HTML entities and the markdown punctuation characters
\* stripped) is below min_words is never admitted, whatever its score.
C7_ShortPostsNeverAdmitted ==
    pc = "done" =>
        \A i \in 1..Len(filtered) :
            IntendedWordCount(filtered[i].full_content) >= min_words

\* C8: every record _filter_posts returns has word_count >= min_words,
\* score >= min_score and >= 0, a non-empty title, a full_content of at
\* least 10 characters, and no spam marker in full_content, whatever the case.
C8_OutputRecordInvariant ==
    pc = "done" =>
        \A i \in 1..Len(filtered) :
            /\ filtered[i].word_count >= min_words
            /\ filtered[i].score >= min_score
            /\ filtered[i].score >= 0
            /\ filtered[i].title # ""
            /\ Len(filtered[i].full_content) >= 10
            /\ \A m \in {"[removed]", "[deleted]", "this post was removed",
                         "comment deleted"} :
                  ~Contains(Lower(filtered[i].full_content), m)

\* two records were admitted under the strict thresholds
C8_Witness ==
    /\ pc = "done"
    /\ min_words = 5
    /\ min_score = 13
    /\ Len(filtered) = 2

\* out is made, in order, from elements of inp the loop body builds a
\* record for
IsSubsequenceOf(out, inp) ==
    \E f \in [1..Len(out) -> 1..Len(inp)] :
        /\ \A j, k \in 1..Len(out) : j < k => f[j] < f[k]
        /\ \A k \in 1..Len(out) :
              /\ ExamineOf(inp[f[k]]).step = "built"
              /\ out[k] = ExamineOf(inp[f[k]]).data

IsPrefixOf(a, b) == Len(a) <= Len(b) /\ a = SubSeq(b, 1, Len(a))

\* C9: for every input and every limit >= 1 the output of _filter_posts
\* has at most limit records and is an order-preserving subsequence of the
\* input; and for a smaller limit, the other arguments equal, the output is
\* a prefix of the output for the larger limit.
C9_LimitPrefixOrder ==
    pc = "done" =>
        /\ Len(filtered) <= limit
        /\ IsSubsequenceOf(filtered, posts)
        /\ \A l \in 1..(MaxLimit + 1) :
              /\ l < limit =>
                    IsPrefixOf(FilterPosts(posts, min_words, min_score, l), filtered)
              /\ l > limit =>
                    IsPrefixOf(filtered, FilterPosts(posts, min_words, min_score, l))

\* the limit cut the output short: a larger limit admits one record more
C9_Witness ==
    /\ pc = "done"
    /\ limit = 1
    /\ Len(filtered) = 1
    /\ Len(FilterPosts(posts, min_words, min_score, 2)) = 2

\* the child of Scenario A: no selftext, is_self false, the url of the
\* scenario
IsScenarioA(post) ==
    /\ post.ty = "dict"
    /\ "selftext" \notin DOMAIN post.v
    /\ "is_self" \in DOMAIN post.v /\ post.v["is_self"] = JBool(FALSE)
    /\ "url" \in DOMAIN post.v /\ post.v["url"] = JStr("https://example.com/a")

\* C10 as stated: Scenario A (one child without selftext, is_self false,
\* url https://example.com/a) yields a record with post_type "link" and
\* selftext "Link to: example.com".
C10_ScenarioA_Stated ==
    (pc = "done" /\ Len(posts) = 1 /\ IsScenarioA(posts[1]) /\ filtered # <<>>) =>
        /\ filtered[1].post_type = "link"
        /\ filtered[1].selftext = "Link to: example.com"

\* C10 amended: Scenario A yields a record with selftext
\* "Link to: example.com"; its post_type is "link" exactly when the child
\* carries post_hint "link", and "other" when it carries no post_hint and no
\* video flag.
C10_ScenarioA ==
    (pc = "done" /\ Len(posts) = 1 /\ IsScenarioA(posts[1]) /\ filtered # <<>>) =>
        /\ Len(filtered) = 1
        /\ filtered[1].selftext = "Link to: example.com"
        /\ filtered[1].post_type = "link" <=> EqStr(GetOrNone(posts[1], "post_hint"), "link")
        /\ ("post_hint" \notin DOMAIN posts[1].v /\ "is_video" \notin DOMAIN posts[1].v)
              => filtered[1].post_type = "other"

\* the child of Scenario A, without post_hint, was admitted as "other"
C10_Witness ==
    /\ pc = "done"
    /\ posts = <<PostLinkNoHint>>
    /\ Len(filtered) = 1
    /\ filtered[1].post_type = "other"
    /\ filtered[1].selftext = "Link to: example.com"

(***************************************************************************)
(* Properties of the word-count threshold (checked under SpecThreshold)    *)
(***************************************************************************)

\* the number of words of the one post drawn, counted as the specification
\* counts them
PostWords ==
    IntendedWordCount(GetOrNone(posts[1], "title").v \o " " \o GetOrNone(posts[1], "selftext").v)

\* C11: the word-count threshold is inclusive. A post that passes the score
\* threshold and the content validation is admitted exactly when its word
\* count is min_words or more: admitted at min_words, rejected at
\* min_words - 1 and below, admitted above (scenario B: min_words 50, 40
\* words rejected, 51 words admitted).
C11_ThresholdInclusive ==
    (pc = "done" /\ GetOrNone(posts[1], "score").v >= min_score) =>
        /\ (PostWords >= min_words) <=> (Len(filtered) = 1)
        /\ (PostWords = min_words) => (Len(filtered) = 1)
        /\ (PostWords = min_words - 1) => (filtered = <<>>)
        /\ (min_words = DefaultMinWords /\ PostWords = 40) => (filtered = <<>>)
        /\ (min_words = DefaultMinWords /\ PostWords = 51) => (Len(filtered) = 1)
        /\ (filtered # <<>>) => (filtered[1].word_count = PostWords)

\* a post of exactly min_words words was admitted
C11_Witness ==
    /\ pc = "done"
    /\ min_words = DefaultMinWords
    /\ PostWords = min_words
    /\ min_score = 13
    /\ Len(filtered) = 1

(***************************************************************************)
(* Properties of _handle_fetch_failure (checked under SpecClassify)        *)
(***************************************************************************)

ClassifierCodes ==
    {"TIMEOUT_ERROR", "CONNECTION_ERROR", "ACCESS_FORBIDDEN", "NOT_FOUND",
     "RATE_LIMITED", "NO_VALID_CONTENT"}

TimeoutClasses == {"requests.Timeout", "requests.ReadTimeout", "requests.ConnectTimeout"}

ConnectionClasses == {"requests.ConnectionError", "requests.ConnectTimeout", "requests.SSLError"}

\* the codes of the error kinds e is of
MatchingCodes(e) ==
    IF e = NoError THEN {}
    ELSE (IF e.cls \in TimeoutClasses THEN {"TIMEOUT_ERROR"} ELSE {})
         \cup (IF e.cls \in ConnectionClasses THEN {"CONNECTION_ERROR"} ELSE {})
         \cup (IF Contains(e.msg, "403") \/ Contains(e.msg, "Forbidden")
               THEN {"ACCESS_FORBIDDEN"} ELSE {})
         \cup (IF Contains(e.msg, "404") \/ Contains(e.msg, "Not Found")
               THEN {"NOT_FOUND"} ELSE {})
         \cup (IF Contains(e.msg, "429") \/ Contains(Lower(e.msg), "rate limit")
               THEN {"RATE_LIMITED"} ELSE {})

\* C12: the failure classifier is total and deterministic. Every last
\* error, None included, is mapped to a Failure record with exactly one of
\* the six classifier codes; an error of one kind (timeout, connection
\* error, message with 403/Forbidden, 404/Not Found, 429/rate limit) gets
\* the code of that kind, an error of several kinds the code of one of them,
\* None and an error of no kind NO_VALID_CONTENT; the code and the texts
\* depend on the error and the source only.
C12_ClassifierTotal ==
    (mode = "classify" /\ pc = "done") =>
        /\ ret.success = FALSE
        /\ ret.error_code \in ClassifierCodes
        /\ IF MatchingCodes(last_error) = {}
           THEN ret.error_code = "NO_VALID_CONTENT"
           ELSE ret.error_code \in MatchingCodes(last_error)
        /\ \A now \in Times :
              [ret EXCEPT !.timestamp = now]
                  = HandleFetchFailure(source, source_type, last_error, now)

\* a read timeout was classified
C12_Witness ==
    /\ mode = "classify" /\ pc = "done"
    /\ last_error = Err("requests.ReadTimeout", "Read timed out. (read timeout=15)")
    /\ ret.error_code = "TIMEOUT_ERROR"

(***************************************************************************)
(* Properties of _validate_response and _extract_posts (checked under      *)
(* SpecPayload)                                                            *)
(***************************************************************************)

\* a t3 child that is a mapping and has a data block
IsWellFormedPost(child) ==
    /\ child.ty = "dict"
    /\ EqStr(GetOrNone(child, "kind"), "t3")
    /\ "data" \in DOMAIN child.v

\* the data blocks of the well-formed t3 children, in order
RECURSIVE WellFormedPosts(_)
WellFormedPosts(children) ==
    IF children = <<>> THEN <<>>
    ELSE (IF IsWellFormedPost(Head(children)) THEN <<Head(children).v["data"]>> ELSE <<>>)
            \o WellFormedPosts(Tail(children))

\* C13: in _extract_posts a malformed child (a t3 child without data block,
\* a child that is no mapping) skips only that child: of a listing, the data
\* blocks of all well-formed t3 children, before and after it, are returned
\* in order, and no exception leaves the function.
C13_MalformedChildSkipped ==
    (pc = "extracted" /\ IsListing(result)) =>
        /\ last_error = NoError
        /\ posts = WellFormedPosts(result.v["data"].v["children"].v)

\* C16: _validate_response accepts a decoded value if and only if it is an
\* object with a data field that contains a non-empty children sequence; it
\* rejects every other value (empty children, no data, no children, a
\* top-level array), and it never raises.
C16_ValidatorAcceptsListings ==
    pc = "validated" => (ret.accepted <=> IsListing(result))

(***************************************************************************)
(* Properties of the Failure records of _run (checked under SpecUntyped)   *)
(***************************************************************************)

\* str(e) of the exceptions raised in the model
LowLevelMessages ==
    {o.exc.msg : o \in {x \in Outcomes : x.kind = "raise"}}
    \cup {SourceAttributeError(ty).msg : ty \in OtherSourceTypes}
    \cup {"'str' object has no attribute 'get'"}

\* text holds the string of an exception
HoldsLowLevelMessage(text) == \E m \in LowLevelMessages : Contains(text, m)

\* C14: every Failure record _run returns, on every failure path
\* (INVALID_SOURCE, the classifier codes, UNEXPECTED_ERROR), carries
\* non-empty user guidance and a non-empty manual-fallback suggestion, and
\* none of its fields holds the string of a low-level exception.
C14_FailureRecordsClean ==
    (pc = "done" /\ ~ret.success) =>
        /\ ret.user_guidance # ""
        /\ ret.fallback_suggestion # ""
        /\ ~HoldsLowLevelMessage(ret.error)
        /\ ~HoldsLowLevelMessage(ret.error_code)
        /\ ~HoldsLowLevelMessage(ret.user_guidance)
        /\ ~HoldsLowLevelMessage(ret.fallback_suggestion)

(***************************************************************************)
(* Properties of the order of the requests of _run (checked under Spec)    *)
(***************************************************************************)

\* a request is about to be issued
Requesting == pc \in {"get", "retry403", "retrySSL"}

\* the step ends the attempt of endpoint ei: _fetch_with_fallbacks returned
EndsEndpoint == Requesting /\ (pc' = "done" \/ ei' # ei)

\* the payload the fetch returned yields at least one admitted post
YieldsAdmitted(payload) ==
    /\ Truthy(payload)
    /\ ExtractPosts(payload).exc = NoError
    /\ FilterPosts(ExtractPosts(payload).posts, min_words, min_score, limit) # <<>>

\* the steps of _run keep the order of the endpoints and of the variants
\* (the request of endpoint ei, variant vi goes to CurrentUrl)
OrderedStep ==
    /\ pc # "done"
    /\ pc # "start" => api_urls' = api_urls
    /\ (pc = "start" /\ pc' = "get") => (ei' = 1 /\ vi' = 1)
    /\ (Requesting /\ pc' = "get") =>
          \/ ei' = ei /\ vi' = vi + 1
          \/ ei' = ei + 1 /\ vi' = 1
    /\ (Requesting /\ pc' \in {"retry403", "retrySSL"}) => (ei' = ei /\ vi' = vi)
    /\ EndsEndpoint =>
          IF YieldsAdmitted(result')
          THEN /\ pc' = "done"
               /\ ei' = ei
               /\ ret'.success
               /\ ret'.url_used = api_urls[ei]
               /\ ret'.posts = FilterPosts(ExtractPosts(result').posts,
                                           min_words, min_score, limit)
               /\ ret'.total_found = Len(ret'.posts)
          ELSE pc' = "done" => ~ret'.success

\* C15: the endpoints are attempted in the order of the URL builder and the
\* variants of an endpoint in the order bare, ?limit=25, ?sort=hot&limit=25;
\* the first endpoint whose payload yields an admitted post wins: _run
\* returns Success with url_used that endpoint and total_found the number
\* of posts returned, and no request is issued after that.
C15_EndpointOrder ==
    /\ [](Requesting => (ei \in 1..Len(api_urls) /\ vi \in 1..NumVariants))
    /\ [][OrderedStep]_vars

\* the second endpoint won on its last variant
C15_Witness ==
    /\ pc = "done"
    /\ ret.success
    /\ ei = 2
    /\ vi = NumVariants
    /\ ret.url_used = api_urls[2]
    /\ ret.total_found = 2

(***************************************************************************)
(* Properties of the error _run classifies (checked under Spec)            *)
(***************************************************************************)

\* C17: the failure classifier receives the last error observed during the
\* endpoint attempts: when every request of every variant of every endpoint
\* fails with a timeout _run returns TIMEOUT_ERROR, and when every request
\* fails with a connection error _run returns CONNECTION_ERROR.
C17_LastErrorClassified ==
    (pc = "done" /\ Len(api_urls) = 2) =>
        /\ hist = "timeout" => (~ret.success /\ ret.error_code = "TIMEOUT_ERROR")
        /\ hist = "connection" => (~ret.success /\ ret.error_code = "CONNECTION_ERROR")

(***************************************************************************)
(* Properties of the variants of one endpoint (checked under Spec)         *)
(***************************************************************************)

\* what may follow the request of variant vi < 3 of an endpoint: the
\* request of variant vi + 1, a retry request for the same variant (after a
\* 403 or a TLS error), or the return of a payload
VariantStep ==
    /\ (pc = "get" /\ vi < NumVariants) =>
          \/ pc' = "get" /\ ei' = ei /\ vi' = vi + 1
          \/ pc' \in {"retry403", "retrySSL"} /\ ei' = ei /\ vi' = vi
          \/ EndsEndpoint /\ result' # JNull
    /\ (pc = "get" /\ EndsEndpoint /\ result' = JNull) => vi = NumVariants

C19_CooldownBetweenEndpoints ==
    (pc = "get" /\ ei > 1 /\ vi = 1) => slept >= DomainDelay

(***************************************************************************)
(* Properties of list-of-listings payloads in _run (checked under Spec)    *)
(***************************************************************************)

\* C20: a status-200 response whose payload is a sequence of listing
\* objects is normalized by flattening the t3 children of all listings in
\* order; with posts that pass the filter _run returns Success for that
\* endpoint. Here every response is such a payload with admissible posts.
C20_ListOfListingsSucceeds ==
    (pc = "done" /\ hist = "listings") =>
        /\ ret.success
        /\ ret.url_used = api_urls[1]
        /\ ret.total_found = 1

(***************************************************************************)
(* Properties of the retries of one variant (checked under Spec)           *)
(***************************************************************************)

\* the step ends _fetch_with_fallbacks with the return value v
FetchReturns(v) == EndsEndpoint /\ result' = v

\* the step leaves the current variant without a payload: the request of
\* the next variant follows, or after the last variant the fetch returns None
NextVariant ==
    IF vi < NumVariants
    THEN pc' = "get" /\ ei' = ei /\ vi' = vi + 1 /\ vreq' = 0
    ELSE FetchReturns(JNull)

\* the step is a request for the same URL as the one before it
SameVariant == ei' = ei /\ vi' = vi /\ api_urls' = api_urls

Is200(o) == o.kind = "response" /\ o.status = 200

Is403(o) == o.kind = "response" /\ o.status = 403

\* the alternate-header request follows a primary 403 and nothing else, and
\* goes to the same URL
RetryOn403 ==
    /\ (pc = "get" /\ Is403(last')) => (pc' = "retry403" /\ SameVariant /\ vreq' = 1)
    /\ pc' = "retry403" => (pc = "get" /\ Is403(last'))

\* the statement as the text has it: the outcome of the alternate-header
\* request is a returned payload on 200 and the next variant otherwise
Retry403AsStated ==
    /\ RetryOn403
    /\ (pc = "retry403" /\ Is200(last')) => FetchReturns(last'.body.data)
    /\ (pc = "retry403" /\ ~Is200(last')) => NextVariant

\* the original statement of C21: after a 403 exactly one alternate-header
\* retry of the same URL; a retry answering 200 has its decoded payload
\* returned, any other retry outcome is followed by the next variant with
\* no further request for this variant.
C21_Retry403_Stated == [][Retry403AsStated]_vars

\* what the code does with the outcome of the alternate-header request
Retry403Step ==
    /\ RetryOn403
    /\ (pc = "retry403" /\ Is200(last') /\ last'.body.decodes) =>
          FetchReturns(last'.body.data)
    /\ (pc = "retry403" /\ Is200(last') /\ ~last'.body.decodes) =>
          \/ NextVariant
          \/ /\ EmbeddedJson(last'.body.text).returns
             /\ FetchReturns(EmbeddedJson(last'.body.text).v)
    /\ (pc = "retry403" /\ last'.kind = "raise" /\ IsInstance(last'.exc, "ssl.SSLError")) =>
          (pc' = "retrySSL" /\ SameVariant /\ vreq' = 2)
    /\ (/\ pc = "retry403"
        /\ ~Is200(last')
        /\ ~(last'.kind = "raise" /\ IsInstance(last'.exc, "ssl.SSLError"))) =>
          NextVariant
    /\ (pc = "retrySSL" /\ vreq = 2) => (FetchReturns(last'.body.data) \/ NextVariant)

\* C21: after a status-403 response to a variant exactly one retry of the
\* same URL with the alternate headers is issued, and no alternate-header
\* retry is issued otherwise. A retry answering 200 with a decodable body
\* has that payload returned (without validation); a retry raising
\* ssl.SSLError is followed by one more request for the same URL, with
\* verification disabled, after which the variant is left; a retry
\* answering 200 with an undecodable body returns the embedded object or
\* goes to the next variant; every other retry outcome is followed by the
\* next variant (after the last variant: the fetch returns None).
C21_Retry403 == [][Retry403Step]_vars

\* the alternate-header retry answered 200 with a payload the validator
\* rejects, and that payload was returned
C21_Witness ==
    /\ last.req = "retry403"
    /\ Is200(last)
    /\ last.body.decodes
    /\ ~ValidateResponse(last.body.data)
    /\ Truthy(last.body.data)
    /\ result = last.body.data
    /\ vreq = 1

(***************************************************************************)
(* Properties of the TLS retry (checked under Spec)                        *)
(***************************************************************************)

\* o is a TLS failure as the HTTP session raises it: requests' SSLError,
\* or the ssl module's
TlsFailure(o) ==
    /\ o.kind = "raise"
    /\ \/ IsInstance(o.exc, "requests.SSLError")
       \/ IsInstance(o.exc, "ssl.SSLError")

TlsRetryStep ==
    /\ (pc = "get" /\ TlsFailure(last')) => (pc' = "retrySSL" /\ SameVariant)
    /\ (pc = "retrySSL" /\ Is200(last') /\ last'.body.decodes) =>
          FetchReturns(last'.body.data)
    /\ (pc = "retrySSL" /\ ~Is200(last')) => NextVariant

\* C22: when the request of a variant fails with a TLS handshake failure
\* as raised by the HTTP session, the same variant URL is requested once
\* more with TLS verification disabled; a 200 answer to that retry has its
\* payload returned, a failed retry is followed by the next variant.
C22_TlsRetry == [][TlsRetryStep]_vars

(***************************************************************************)
(* Properties of the embedded-JSON handler (checked under Spec)            *)
(***************************************************************************)

\* text holds an assignment of the form  window.__r = {...};
HasDotAssignment(text) ==
    /\ Contains(text, "window.__r = {")
    /\ Contains(text, "};")

\* the object of the assignment  window.__r = {...};  in text, parsed
DotAssigned(text) ==
    JsonLoads(SubSeq(text, Find(text, "window.__r = {", 1) + 13,
                     Find(text, "};", Find(text, "window.__r = {", 1) + 13)))

\* the response of the step is a 200 whose body fails JSON decoding
UndecodableStep ==
    /\ pc = "get"
    /\ Is200(last')
    /\ ~last'.body.decodes
    /\ IsSubclass(last'.body.errcls, "json.JSONDecodeError")

EmbeddedStep ==
    /\ (/\ UndecodableStep
        /\ HasDotAssignment(last'.body.text)
        /\ DotAssigned(last'.body.text).ok) =>
          FetchReturns(DotAssigned(last'.body.text).v)
    /\ (/\ UndecodableStep
        /\ ~(/\ HasDotAssignment(last'.body.text)
             /\ DotAssigned(last'.body.text).ok)) =>
          NextVariant

\* C23: when a status-200 body fails JSON decoding and holds an embedded
\* assignment of the form  window.__r = {...};  the embedded object is
\* parsed and returned as the payload; when no such assignment is present
\* or it does not parse, the next variant follows.
C23_EmbeddedJson == [][EmbeddedStep]_vars

(***************************************************************************)
(* Properties of the names in the built URLs (checked under SpecBuild)     *)
(***************************************************************************)

\* src without a leading prefix and without trailing slashes
WithoutPrefix(src, prefix) ==
    RStripChars(IF StartsWith(src, prefix) THEN SubSeq(src, Len(prefix) + 1, Len(src))
                ELSE src, "/")

\* the URLs of the two mirrors for a path
MirrorUrls(path) == [i \in 1..Len(MirrorOrder) |-> "https://" \o MirrorOrder[i] \o path]

\* C24: for a source of kind subreddit (or user) the name in the built URLs
\* is the source with only a leading "r/" (or "u/") and the trailing slash
\* removed; every other character, an interior or final "r" or "u" before a
\* slash included, is kept ("r/popular/" builds /r/popular/<sort>.json).
C24_NameKept ==
    pc = "done" =>
        /\ source_type = "subreddit" =>
              api_urls = MirrorUrls("/r/" \o WithoutPrefix(source, "r/") \o "/"
                                    \o (IF sort_type \in {"hot", "new", "top", "rising"}
                                        THEN sort_type ELSE "hot") \o ".json")
        /\ source_type = "user" =>
              api_urls = MirrorUrls("/user/" \o WithoutPrefix(source, "u/")
                                    \o "/submitted.json")

(***************************************************************************)
(* Termination of _run (checked under Spec)                                *)
(***************************************************************************)

\* the session.get calls of the loop body: lines 170, 180, 191
RequestKinds == {"get", "retry403", "retrySSL"}

\* the position of the next request among all requests a call of _run can
\* make, with perVariant requests for each variant of each endpoint
RequestRank(perVariant) ==
    ((ei - 1) * NumVariants + (vi - 1)) * perVariant + vreq

\* The requests of one call, with at most perVariant of them for a variant:
\* the endpoints are at most one per mirror domain, a request is the
\* (vreq + 1)-th of variant vi of endpoint ei, every request is followed by
\* one of a higher rank or by the return, and when the last variant of the
\* last endpoint yields no payload a Failure is returned.
BoundedRequests(perVariant) ==
    /\ Len(api_urls') <= Len(domains)
    /\ pc' \in RequestKinds =>
          /\ ei' \in 1..Len(api_urls')
          /\ vi' \in 1..NumVariants
          /\ vreq' \in 0..(perVariant - 1)
          /\ (vreq' = 0) = (pc' = "get")
    /\ pc \in RequestKinds =>
          \/ pc' \in RequestKinds /\ RequestRank(perVariant)' > RequestRank(perVariant)
          \/ pc' = "done"
    /\ (/\ pc \in RequestKinds
        /\ ei = Len(api_urls)
        /\ vi = NumVariants
        /\ FetchReturns(JNull)) =>
          (pc' = "done" /\ ~ret'.success)
    /\ pc = "done" => pc' = "done"

\* as long as _run has not returned, its next step can be taken once the
\* pending request has returned or raised: the call never hangs in between
NeverStuck == pc = "done" \/ ENABLED Next

\* the original statement of C25: provided every request returns or raises,
\* every call of _run terminates after at most one primary request and one
\* fallback retry per variant, three variants per endpoint and one endpoint
\* per mirror domain, with a Failure after the last variant of the last
\* endpoint failed.
C25_Terminates_Stated ==
    /\ [][BoundedRequests(2)]_vars
    /\ []NeverStuck

\* C25: provided every request returns or raises, every call of _run
\* terminates after a bounded number of requests: at most one primary
\* request per variant and at most two fallback retries of it (the
\* alternate-header retry and the retry with verification disabled), three
\* variants per endpoint, one endpoint per mirror domain; after the last
\* variant of the last endpoint failed a Failure is returned. (Every
\* request has a higher rank than the one before it and the ranks are
\* bounded, so the requests are finitely many; no state before the return
\* is without a next step.)
C25_Terminates ==
    /\ [][BoundedRequests(Cardinality(RequestKinds))]_vars
    /\ []NeverStuck

\* the last variant of the last endpoint took three requests and the call
\* ended in a Failure
C25_Witness ==
    /\ pc = "done"
    /\ ~ret.success
    /\ ei = Len(domains)
    /\ vi = NumVariants
    /\ vreq = Cardinality(RequestKinds) - 1
    /\ last.req = "retrySSL"

(***************************************************************************)
(* Properties of _determine_post_type (checked under SpecPostType)         *)
(***************************************************************************)

HasHint(post, hint) == EqStr(GetOrNone(post, "post_hint"), hint)

HasFlag(post, flag) == Truthy(Get(post, flag, JBool(FALSE)))

\* the url of the post is text (or the post has none)
UrlIsText(post) == Get(post, "url", JStr("")).ty = "str"

\* the first rule of the stated precedence that matches
PrecedenceType(post) ==
    IF HasFlag(post, "is_self") THEN "text"
    ELSE IF HasHint(post, "image") THEN "image"
    ELSE IF HasHint(post, "rich:video") \/ HasFlag(post, "is_video") THEN "video"
    ELSE IF HasHint(post, "link") THEN "link"
    ELSE IF StartsWith(Get(post, "url", JStr("")).v, "https://www.reddit.com")
    THEN "crosspost"
    ELSE "other"

====
